---------------------------- MODULE Spec2Model ----------------------------
(***************************************************************************)
(* L3 address and connected-route reconciliation of portd (portd_l3.c).    *)
(*                                                                         *)
(* An address text ("10.0.0.5/24") is a record                             *)
(*     [host |-> <<bytes>>, len |-> n, alt |-> b]                          *)
(* host : the bytes the address part denotes (4 for dotted decimal, 16 for *)
(*        colon-hex, <<>> when the address part is no address at all);     *)
(* len  : the decimal number written after '/', or NoLen without a '/';    *)
(* alt  : TRUE for a spelling inet_ntop/printf never produce (upper-case   *)
(*        hex digits, a zero-padded length such as "/024").                *)
(* Two texts are the same C string (strcmp == 0) iff the records are       *)
(* equal.                                                                  *)
(***************************************************************************)
EXTENDS Integers, Sequences, FiniteSets, Bags, TLC

VARIABLES
    ports,      \* port name -> PortState held in the VRF port map, or NoPort
    kernel,     \* interface name -> addresses the kernel holds on it
    routes,     \* the CONFIG route table: sequence of route rows (with nexthops)
    commit_txn, \* the CONFIG transaction's dirty flag
    vrf,        \* TRUE when the CONFIG holds a VRF record
    phase,      \* "boot" before portd_ipaddr_config_on_init, "main" after
    call,       \* the handler call of the current pass: what it was given
    ops         \* the handler call of the current pass: what it did, in order

vars == <<ports, kernel, routes, commit_txn, vrf, phase, call, ops>>

-----------------------------------------------------------------------------
(* Program constants *)

AF_INET == 2
AF_INET6 == 10
PORTD_IPV4_MAX_LEN == 32
PORTD_IPV6_MAX_LEN == 128
UCHAR_RANGE == 256

\* a NULL char * where an address text is expected
NULL == [null |-> TRUE]
\* a NULL char * where a column keyword or a name is expected
NULLSTR == "NULL"
NoLen == -1
NoPort == [none |-> "port"]
NoRow == [none |-> "row"]
LOOPBACK_INTERFACE_NAME == "lo"
RTM_NEWADDR == "ADD"
RTM_DELADDR == "DEL"

-----------------------------------------------------------------------------
(* Bounds of the model *)

\* longest secondary-address column of a CONFIG row
MaxSecondary == 2
\* most addresses one CONFIG row carries over all four columns
MaxRowAddrs == 2
\* positions 1..MaxFailPos of a call's netlink sends that may fail
MaxFailPos == 2
\* route rows the table may hold before a pass
MaxRoutes == 2
\* addresses in one CONFIG port row of a two-port pass
MaxPeerAddrs == 1

-----------------------------------------------------------------------------
(* PrefixCodec *)

ByteLen(family) == IF family = AF_INET THEN 4 ELSE 16

MaxLen(family) == IF family = AF_INET THEN PORTD_IPV4_MAX_LEN ELSE PORTD_IPV6_MAX_LEN

Text(h, n) == [host |-> h, len |-> n, alt |-> FALSE]

AltText(h, n) == [host |-> h, len |-> n, alt |-> TRUE]

\* portd_get_prefix without the comparison of the length with maxlen
portd_get_prefix_nomax(family, ip_address) ==
    LET prefixlen == IF ip_address.len = NoLen THEN MaxLen(family)
                     ELSE ip_address.len % UCHAR_RANGE
    IN  IF Len(ip_address.host) # ByteLen(family)
          THEN [ok |-> FALSE, host |-> <<>>, len |-> prefixlen]
        ELSE [ok |-> TRUE, host |-> ip_address.host, len |-> prefixlen]

\* portd_get_prefix: [ok, host, len]; len is an unsigned char
portd_get_prefix(family, ip_address) ==
    LET maxlen    == MaxLen(family)
        prefixlen == IF ip_address.len = NoLen THEN maxlen
                     ELSE ip_address.len % UCHAR_RANGE
    IN  IF prefixlen > maxlen
          THEN [ok |-> FALSE, host |-> <<>>, len |-> prefixlen]
        ELSE IF Len(ip_address.host) # ByteLen(family)
          THEN [ok |-> FALSE, host |-> <<>>, len |-> prefixlen]
        ELSE [ok |-> TRUE, host |-> ip_address.host, len |-> prefixlen]

\* a & b on n-bit operands
RECURSIVE BitAnd(_, _, _)
BitAnd(a, b, n) ==
    IF n = 0 THEN 0
    ELSE 2 * BitAnd(a \div 2, b \div 2, n - 1) + (IF a % 2 = 1 /\ b % 2 = 1 THEN 1 ELSE 0)

RECURSIVE Pow2(_)
Pow2(n) == IF n = 0 THEN 1 ELSE 2 * Pow2(n - 1)

\* static u_char maskbit[] of apply_mask_ipv6 (0x00, 0x80, ..., 0xff)
maskbit == <<0, 128, 192, 224, 240, 248, 252, 254, 255>>

\* apply_mask_ipv6 on the 16 bytes of p->prefix
apply_mask_ipv6(host, prefixlen) ==
    LET index  == prefixlen \div 8
        offset == prefixlen % 8
    IN  IF index < 16
          THEN [i \in 1..16 |->
                   IF i - 1 < index THEN host[i]
                   ELSE IF i - 1 = index THEN BitAnd(host[i], maskbit[offset + 1], 8)
                   ELSE 0]
          ELSE host

\* masklen2ip that drops the bits of a byte the mask ends in
masklen2ip_bytes(masklen) ==
    [i \in 1..4 |-> IF 8 * i <= masklen THEN 255 ELSE 0]

\* masklen2ip: htonl(0xffffffff << (32 - masklen)) as its 4 bytes in network
\* order.  The 32-bit value is 2^32 - 2^(32 - masklen); its byte i (1 = most
\* significant) is 255 when the byte lies inside the mask, 0 when it lies
\* outside, and 256 - 2^(8i - masklen) when the mask ends inside it.
masklen2ip(masklen) ==
    [i \in 1..4 |->
        IF 8 * i <= masklen THEN 255
        ELSE IF masklen <= 8 * (i - 1) THEN 0
        ELSE 256 - Pow2(8 * i - masklen)]

\* apply_mask_ipv4: p->prefix.s_addr &= mask.s_addr
apply_mask_ipv4(host, prefixlen) ==
    LET mask == masklen2ip(prefixlen)
    IN  [i \in 1..4 |-> BitAnd(host[i], mask[i], 8)]

\* inet_ntop followed by snprintf("%s/%d"): the standard spelling
Canonical(host, prefixlen) == Text(host, prefixlen)

\* the connected-route prefix of an address text: [ok, prefix]
RoutePrefix(family, address) ==
    LET pf == portd_get_prefix(family, address)
    IN  IF ~pf.ok THEN [ok |-> FALSE, prefix |-> NULL]
        ELSE [ok |-> TRUE,
              prefix |-> Canonical(IF family = AF_INET
                                     THEN apply_mask_ipv4(pf.host, pf.len)
                                     ELSE apply_mask_ipv6(pf.host, pf.len),
                                   pf.len)]

-----------------------------------------------------------------------------
(* PortState (struct port) and the CONFIG port row (struct ovsrec_port) *)

\* struct port as the host creates it: no primary, empty secondary hmaps
NewPort(name) ==
    [name |-> name, ip4_address |-> NULL, ip6_address |-> NULL,
     secondary_ip4addr |-> EmptyBag, secondary_ip6addr |-> EmptyBag]

Primary(port, family) ==
    IF family = AF_INET THEN port.ip4_address ELSE port.ip6_address

Secondary(port, family) ==
    IF family = AF_INET THEN port.secondary_ip4addr ELSE port.secondary_ip6addr

WithPrimary(port, family, address) ==
    IF family = AF_INET THEN [port EXCEPT !.ip4_address = address]
    ELSE [port EXCEPT !.ip6_address = address]

WithSecondary(port, family, bag) ==
    IF family = AF_INET THEN [port EXCEPT !.secondary_ip4addr = bag]
    ELSE [port EXCEPT !.secondary_ip6addr = bag]

RowPrimary(port_row, family) ==
    IF family = AF_INET THEN port_row.ip4_address ELSE port_row.ip6_address

RowSecondary(port_row, family) ==
    IF family = AF_INET THEN port_row.ip4_address_secondary
    ELSE port_row.ip6_address_secondary

Range(seq) == {seq[i] : i \in DOMAIN seq}

\* the order in which a hash table hands out its keys: fixed, unspecified
RECURSIVE HashOrder(_)
HashOrder(S) ==
    IF S = {} THEN <<>>
    ELSE LET x == CHOOSE y \in S : TRUE
         IN  <<x>> \o HashOrder(S \ {x})

\* every node of an hmap in iteration order (equal keys share a bucket)
RECURSIVE Copies(_, _)
Copies(x, n) == IF n = 0 THEN <<>> ELSE <<x>> \o Copies(x, n - 1)

RECURSIVE Flatten(_, _)
Flatten(order, bag) ==
    IF order = <<>> THEN <<>>
    ELSE Copies(Head(order), CopiesIn(Head(order), bag)) \o Flatten(Tail(order), bag)

HmapNodes(bag) == Flatten(HashOrder(BagToSet(bag)), bag)

\* hmap_remove of one node / hmap_insert of one node
\* HmapRemove that leaves the node linked
HmapRemove_keep(bag, x) == bag

HmapRemove(bag, x) == bag (-) SetToBag({x})

HmapInsert(bag, x) == bag (+) SetToBag({x})

-----------------------------------------------------------------------------
(* What a handler call does, in order *)

Ev(ev, cmd, port_name, family, address, secondary, res) ==
    [ev |-> ev, cmd |-> cmd, port |-> port_name, family |-> family,
     address |-> address, secondary |-> secondary, res |-> res]

-----------------------------------------------------------------------------
(* KernelChannel *)

SameAddr(a, family, host, len) ==
    a.family = family /\ a.host = host /\ a.len = len

\* what a delivered RTM_NEWADDR / RTM_DELADDR does to the interface
KernelApply(kern, cmd, ifname, family, host, len) ==
    LET held == \E a \in kern[ifname] : SameAddr(a, family, host, len)
    IN  IF cmd = RTM_NEWADDR
          THEN IF held THEN kern
               ELSE [kern EXCEPT ![ifname] = @ \cup
                        {[family |-> family, host |-> host, len |-> len,
                          scope |-> "global"]}]
          ELSE [kern EXCEPT ![ifname] =
                   {a \in @ : ~SameAddr(a, family, host, len)}]

\* portd_set_ipaddr.  s is the running state of the handler call; env says
\* which interface names if_nametoindex does not know and which of the call's
\* send()s fail.
portd_set_ipaddr(s, env, cmd, port_name, ip_address, family, secondary) ==
    LET pf  == portd_get_prefix(family, ip_address)
        n   == s.nsend + 1
        res == IF port_name \in env.noif THEN "noif"
               ELSE IF ~pf.ok THEN "badprefix"
               ELSE IF n \in env.sendfail THEN "sendfail"
               ELSE "sent"
    IN  [s EXCEPT
            !.nsend  = IF res \in {"sendfail", "sent"} THEN n ELSE @,
            !.kernel = IF res = "sent"
                         THEN KernelApply(@, cmd, port_name, family, pf.host, pf.len)
                         ELSE @,
            !.ops    = Append(@, Ev("addr", cmd, port_name, family, ip_address,
                                    secondary, res))]

-----------------------------------------------------------------------------
(* ConnectedRouteWriter *)

FamilyName(family) == IF family = AF_INET THEN "ipv4" ELSE "ipv6"

\* the row ovsrec_route_insert hands back: no column written yet
BlankRoute ==
    [vrf |-> NULLSTR, address_family |-> NULLSTR, prefix |-> NULL,
     sub_address_family |-> NULLSTR, from |-> NULLSTR, distance |-> <<>>,
     selected |-> <<>>, nexthops |-> <<>>]

CONNECTED_ROUTE_DISTANCE == 0

\* portd_add_connected_route without the test of ovsrec_vrf_first
portd_add_connected_route_anyvrf(s, env, port_row, family) ==
    LET address == RowPrimary(port_row, family)
        pr      == RoutePrefix(family, address)
        row0    == [BlankRoute EXCEPT !.address_family = FamilyName(family)]
        row1    == [row0 EXCEPT !.prefix = pr.prefix,
                                !.sub_address_family = "unicast",
                                !.from = "connected",
                                !.distance = <<CONNECTED_ROUTE_DISTANCE>>,
                                !.selected = <<TRUE>>,
                                !.nexthops = <<[ports |-> <<port_row.name>>]>>]
    IN  IF ~pr.ok
          THEN [s EXCEPT !.routes = Append(@, row0),
                         !.ops = Append(@, Ev("route", "ADD", port_row.name, family,
                                              address, FALSE, "badprefix"))]
        ELSE [s EXCEPT !.routes = Append(@, row1),
                       !.commit_txn = TRUE,
                       !.ops = Append(@, Ev("route", "ADD", port_row.name, family,
                                            address, FALSE, "ok"))]

\* portd_add_connected_route
portd_add_connected_route(s, env, port_row, family) ==
    LET address == RowPrimary(port_row, family)
        pr      == RoutePrefix(family, address)
        row0    == [BlankRoute EXCEPT !.vrf = "vrf_default",
                                      !.address_family = FamilyName(family)]
        row1    == [row0 EXCEPT !.prefix = pr.prefix,
                                !.sub_address_family = "unicast",
                                !.from = "connected",
                                !.distance = <<CONNECTED_ROUTE_DISTANCE>>,
                                !.selected = <<TRUE>>,
                                !.nexthops = <<[ports |-> <<port_row.name>>]>>]
    IN  IF ~env.vrf
          THEN [s EXCEPT !.ops = Append(@, Ev("route", "ADD", port_row.name, family,
                                              address, FALSE, "novrf"))]
        ELSE IF ~pr.ok
          THEN [s EXCEPT !.routes = Append(@, row0),
                         !.ops = Append(@, Ev("route", "ADD", port_row.name, family,
                                              address, FALSE, "badprefix"))]
        ELSE [s EXCEPT !.routes = Append(@, row1),
                       !.commit_txn = TRUE,
                       !.ops = Append(@, Ev("route", "ADD", port_row.name, family,
                                            address, FALSE, "ok"))]

\* is_route_matched without the comparison of the nexthop's port
is_route_matched_anyport(row_route, prefix_str, port_name) ==
    /\ row_route.prefix = prefix_str
    /\ row_route.from = "connected"
    /\ (row_route.sub_address_family = NULLSTR
        \/ row_route.sub_address_family = "unicast")

\* is_route_matched
is_route_matched(row_route, prefix_str, port_name) ==
    /\ row_route.prefix = prefix_str
    /\ row_route.from = "connected"
    /\ (row_route.sub_address_family = NULLSTR
        \/ row_route.sub_address_family = "unicast")
    /\ row_route.nexthops[1].ports[1] = port_name

\* FamilyPasses that lets a row without address family through for IPv6 too
FamilyPasses_nullboth(row_route, family) ==
    \/ row_route.address_family = NULLSTR
    \/ row_route.address_family = FamilyName(family)

\* the address-family test in front of is_route_matched
FamilyPasses(row_route, family) ==
    IF family = AF_INET
      THEN row_route.address_family = NULLSTR \/ row_route.address_family = "ipv4"
      ELSE row_route.address_family # NULLSTR /\ row_route.address_family = "ipv6"

RemoveAt(seq, i) == SubSeq(seq, 1, i - 1) \o SubSeq(seq, i + 1, Len(seq))

\* portd_del_connected_route
portd_del_connected_route(s, address, port_name, family) ==
    LET pr   == RoutePrefix(family, address)
        hits == {i \in DOMAIN s.routes :
                    /\ FamilyPasses(s.routes[i], family)
                    /\ is_route_matched(s.routes[i], pr.prefix, port_name)}
        res  == IF ~pr.ok THEN "badprefix"
                ELSE IF hits = {} THEN "notfound" ELSE "ok"
        first == CHOOSE i \in hits : \A j \in hits : i <= j
    IN  [s EXCEPT
            !.routes     = IF res = "ok" THEN RemoveAt(@, first) ELSE @,
            !.commit_txn = IF res = "ok" THEN TRUE ELSE @,
            !.ops        = Append(@, Ev("route", "DEL", port_name, family, address,
                                        FALSE, res))]

-----------------------------------------------------------------------------
(* AddressSetDiff: portd_config_secondary_ipv4_addr / _ipv6_addr *)

\* the first loop: every node of the port's hmap whose key is not in the new
\* list is unlinked, then deleted from the kernel
RECURSIVE RemoveObsolete(_, _, _, _, _)
RemoveObsolete(s, env, family, new_list, nodes) ==
    IF nodes = <<>> THEN s
    ELSE LET address == Head(nodes)
             s1 == [s EXCEPT
                      !.port = WithSecondary(@, family,
                                   HmapRemove(Secondary(@, family), address)),
                      !.ops = Append(@, Ev("unlink", "DEL", s.port.name, family,
                                           address, TRUE, "ok"))]
         IN  IF address \notin new_list
               THEN RemoveObsolete(
                        portd_set_ipaddr(s1, env, RTM_DELADDR, s.port.name,
                                         address, family, TRUE),
                        env, family, new_list, Tail(nodes))
               ELSE RemoveObsolete(s, env, family, new_list, Tail(nodes))

\* portd_ip4_addr_find / portd_ip6_addr_find
portd_ip_addr_find(port, family, address) == BagIn(address, Secondary(port, family))

\* the second loop: every key of the new list the hmap does not hold is
\* linked in, then added to the kernel
RECURSIVE AddNew(_, _, _, _)
AddNew(s, env, family, keys) ==
    IF keys = <<>> THEN s
    ELSE LET address == Head(keys)
             s1 == [s EXCEPT
                      !.port = WithSecondary(@, family,
                                   HmapInsert(Secondary(@, family), address)),
                      !.ops = Append(@, Ev("link", "ADD", s.port.name, family,
                                           address, TRUE, "ok"))]
         IN  IF ~portd_ip_addr_find(s.port, family, address)
               THEN AddNew(portd_set_ipaddr(s1, env, RTM_NEWADDR, s.port.name,
                                            address, family, TRUE),
                           env, family, Tail(keys))
               ELSE AddNew(s, env, family, Tail(keys))

\* shash_add_once over the column: a duplicate is warned about and dropped
NewList(column) == Range(column)

\* ConfigSecondary with the add loop run before the remove loop
ConfigSecondary_addfirst(s, env, port_row, family) ==
    LET new_list == NewList(RowSecondary(port_row, family))
        s1 == AddNew(s, env, family, HashOrder(new_list))
    IN  RemoveObsolete(s1, env, family, new_list,
                       HmapNodes(Secondary(s.port, family)))

ConfigSecondary(s, env, port_row, family) ==
    LET new_list == NewList(RowSecondary(port_row, family))
        s1 == RemoveObsolete(s, env, family, new_list,
                             HmapNodes(Secondary(s.port, family)))
    IN  AddNew(s1, env, family, HashOrder(new_list))

portd_config_secondary_ipv4_addr(s, env, port_row) ==
    ConfigSecondary(s, env, port_row, AF_INET)

portd_config_secondary_ipv6_addr(s, env, port_row) ==
    ConfigSecondary(s, env, port_row, AF_INET6)

-----------------------------------------------------------------------------
(* ReconfigEngine: portd_reconfig_ipaddr *)

\* StorePrimary that leaves the stored string as it was
StorePrimary_stale(s, family, address) ==
    [s EXCEPT !.ops = Append(@, Ev("store", "SET", s.port.name, family, address,
                                   FALSE, "ok"))]

\* free(port->ipX_address); port->ipX_address = xstrdup(...) or NULL
StorePrimary(s, family, address) ==
    [s EXCEPT !.port = WithPrimary(@, family, address),
              !.ops = Append(@, Ev("store", "SET", s.port.name, family, address,
                                   FALSE, "ok"))]

\* ReplacePrimary that adds the new address before it deletes the old one
ReplacePrimary_addfirst(s, env, port_row, family) ==
    LET old == Primary(s.port, family)
        new == RowPrimary(port_row, family)
        s1  == portd_set_ipaddr(s, env, RTM_NEWADDR, s.port.name, new, family, FALSE)
        s2  == portd_set_ipaddr(s1, env, RTM_DELADDR, s.port.name, old, family, FALSE)
        s3  == portd_del_connected_route(s2, old, s.port.name, family)
        s4  == StorePrimary(s3, family, new)
    IN  portd_add_connected_route(s4, env, port_row, family)

\* primary changed: delete the old one and its route, then add the new one
ReplacePrimary(s, env, port_row, family) ==
    LET old == Primary(s.port, family)
        new == RowPrimary(port_row, family)
        s1  == portd_set_ipaddr(s, env, RTM_DELADDR, s.port.name, old, family, FALSE)
        s2  == portd_del_connected_route(s1, old, s.port.name, family)
        s3  == StorePrimary(s2, family, new)
        s4  == portd_set_ipaddr(s3, env, RTM_NEWADDR, s.port.name, new, family, FALSE)
    IN  portd_add_connected_route(s4, env, port_row, family)

\* AddPrimary that inserts the route before it adds the address
AddPrimary_routefirst(s, env, port_row, family) ==
    LET new == RowPrimary(port_row, family)
        s1  == StorePrimary(s, family, new)
        s2  == portd_add_connected_route(s1, env, port_row, family)
    IN  portd_set_ipaddr(s2, env, RTM_NEWADDR, s.port.name, new, family, FALSE)

\* primary appeared
AddPrimary(s, env, port_row, family) ==
    LET new == RowPrimary(port_row, family)
        s1  == StorePrimary(s, family, new)
        s2  == portd_set_ipaddr(s1, env, RTM_NEWADDR, s.port.name, new, family, FALSE)
    IN  portd_add_connected_route(s2, env, port_row, family)

\* primary went away
RemovePrimary(s, env, family) ==
    LET old == Primary(s.port, family)
        s1  == portd_set_ipaddr(s, env, RTM_DELADDR, s.port.name, old, family, FALSE)
        s2  == portd_del_connected_route(s1, old, s.port.name, family)
    IN  StorePrimary(s2, family, NULL)

\* ReconfigPrimary without the comparison of the two strings
ReconfigPrimary_nocmp(s, env, port_row, family) ==
    IF RowPrimary(port_row, family) # NULL
      THEN IF Primary(s.port, family) # NULL
             THEN ReplacePrimary(s, env, port_row, family)
             ELSE AddPrimary(s, env, port_row, family)
      ELSE IF Primary(s.port, family) # NULL
             THEN RemovePrimary(s, env, family)
             ELSE s

\* the primary block of one family
ReconfigPrimary(s, env, port_row, family) ==
    IF RowPrimary(port_row, family) # NULL
      THEN IF Primary(s.port, family) # NULL
             THEN IF Primary(s.port, family) # RowPrimary(port_row, family)
                    THEN ReplacePrimary(s, env, port_row, family)
                    ELSE s
             ELSE AddPrimary(s, env, port_row, family)
      ELSE IF Primary(s.port, family) # NULL
             THEN RemovePrimary(s, env, family)
             ELSE s

\* a log holds a kernel request or a route write that did not go through
Failed(log) == \E i \in DOMAIN log : log[i].res \notin {"ok", "sent"}

\* portd_reconfig_ipaddr that returns after the first block in which a
\* kernel request or a route write failed
portd_reconfig_ipaddr_abort(s, env, port_row, m4, m6) ==
    LET s1 == ReconfigPrimary(s, env, port_row, AF_INET)
        s2 == IF Failed(s1.ops) THEN s1
              ELSE ReconfigPrimary(s1, env, port_row, AF_INET6)
        s3 == IF Failed(s2.ops) \/ ~m4 THEN s2
              ELSE portd_config_secondary_ipv4_addr(s2, env, port_row)
    IN  IF Failed(s3.ops) \/ ~m6 THEN s3
        ELSE portd_config_secondary_ipv6_addr(s3, env, port_row)

\* portd_reconfig_ipaddr that runs both secondary diffs whatever the flags
portd_reconfig_ipaddr_ungated(s, env, port_row, m4, m6) ==
    LET s1 == ReconfigPrimary(s, env, port_row, AF_INET)
        s2 == ReconfigPrimary(s1, env, port_row, AF_INET6)
        s3 == portd_config_secondary_ipv4_addr(s2, env, port_row)
    IN  portd_config_secondary_ipv6_addr(s3, env, port_row)

\* m4, m6: OVSREC_IDL_IS_COLUMN_MODIFIED of the two secondary columns
portd_reconfig_ipaddr(s, env, port_row, m4, m6) ==
    LET s1 == ReconfigPrimary(s, env, port_row, AF_INET)
        s2 == ReconfigPrimary(s1, env, port_row, AF_INET6)
        s3 == IF m4 THEN portd_config_secondary_ipv4_addr(s2, env, port_row) ELSE s2
    IN  IF m6 THEN portd_config_secondary_ipv6_addr(s3, env, port_row) ELSE s3

-----------------------------------------------------------------------------
(* StartupReconciler: portd_ipaddr_config_on_init *)

\* parse_nl_msg over both dumps: one kernel_port per interface that reported
\* an address, its addresses as inet_ntop/"%s/%d" print them; "lo" and
\* link-scope IPv6 addresses are passed over
DumpedAddrs(kern, ifname, family) ==
    {Canonical(a.host, a.len) :
        a \in {b \in kern[ifname] :
                  /\ b.family = family
                  /\ ~(family = AF_INET6 /\ b.scope = "link")}}

portd_populate_kernel_ip_addr(kern) ==
    LET names == {n \in DOMAIN kern :
                     /\ n # LOOPBACK_INTERFACE_NAME
                     /\ DumpedAddrs(kern, n, AF_INET) \cup DumpedAddrs(kern, n, AF_INET6) # {}}
    IN  [n \in names |-> [name |-> n,
                          ip4addr |-> DumpedAddrs(kern, n, AF_INET),
                          ip6addr |-> DumpedAddrs(kern, n, AF_INET6)]]

RECURSIVE SeqToBag(_)
SeqToBag(seq) ==
    IF seq = <<>> THEN EmptyBag ELSE SetToBag({Head(seq)}) (+) SeqToBag(Tail(seq))

\* the struct port portd_populate_db_ip_addr builds from one port row: every
\* element of a secondary column is hmap_insert-ed
DbPort(port_row) ==
    [name |-> port_row.name,
     ip4_address |-> port_row.ip4_address,
     ip6_address |-> port_row.ip6_address,
     secondary_ip4addr |-> SeqToBag(port_row.ip4_address_secondary),
     secondary_ip6addr |-> SeqToBag(port_row.ip6_address_secondary)]

\* portd_populate_db_ip_addr: the ports of every VRF of all_vrfs
portd_populate_db_ip_addr(db, has_vrf) ==
    LET names == IF has_vrf THEN {n \in DOMAIN db : db[n] # NoRow} ELSE {}
    IN  [n \in names |-> DbPort(db[n])]

\* portd_find_ip_addr_kernel
portd_find_ip_addr_kernel(kernel_port, address, family) ==
    IF family = AF_INET6 THEN address \in kernel_port.ip6addr
    ELSE address \in kernel_port.ip4addr

\* portd_find_ip_addr_db
portd_find_ip_addr_db(port, address, family) ==
    \/ (Primary(port, family) # NULL /\ Primary(port, family) = address)
    \/ BagIn(address, Secondary(port, family))

\* portd_set_ipaddr for each address of a list, in order
RECURSIVE SetEach(_, _, _, _, _, _, _)
SetEach(s, env, cmd, name, family, secondary, addrs) ==
    IF addrs = <<>> THEN s
    ELSE SetEach(portd_set_ipaddr(s, env, cmd, name, Head(addrs), family, secondary),
                 env, cmd, name, family, secondary, Tail(addrs))

\* PurgeKernelPort without the loop over the IPv6 addresses
PurgeKernelPort_v4only(s, env, kernel_port) ==
    SetEach(s, env, RTM_DELADDR, kernel_port.name, AF_INET, FALSE,
            HashOrder(kernel_port.ip4addr))

\* the port is no longer in the DB: every kernel address goes
PurgeKernelPort(s, env, kernel_port) ==
    LET s1 == SetEach(s, env, RTM_DELADDR, kernel_port.name, AF_INET, FALSE,
                      HashOrder(kernel_port.ip4addr))
    IN  SetEach(s1, env, RTM_DELADDR, kernel_port.name, AF_INET6, FALSE,
                HashOrder(kernel_port.ip6addr))

\* portd_add_port_to_cache whose strcmp never finds the port in a VRF
portd_add_port_to_cache_skip(s, db_port) ==
    [s EXCEPT !.ops = Append(@, Ev("cache", "SET", db_port.name, 0, NULL, FALSE, "ok"))]

\* portd_add_port_to_cache
portd_add_port_to_cache(s, db_port) ==
    [s EXCEPT !.ports[db_port.name] = db_port,
              !.ops = Append(@, Ev("cache", "SET", db_port.name, 0, NULL, FALSE, "ok"))]

\* NotInDb that finds every kernel address in the DB record
NotInDb_none(db_port, family, addrs) == <<>>

\* the kernel addresses the DB record lacks / the DB addresses the kernel lacks
NotInDb(db_port, family, addrs) ==
    SelectSeq(addrs, LAMBDA a : ~portd_find_ip_addr_db(db_port, a, family))

NotInKernel(kernel_port, family, addrs) ==
    SelectSeq(addrs, LAMBDA a : ~portd_find_ip_addr_kernel(kernel_port, a, family))

PrimarySeq(db_port, family) ==
    IF Primary(db_port, family) # NULL THEN <<Primary(db_port, family)>> ELSE <<>>

\* the port is in the DB: delete what the DB lacks, add what the kernel lacks
SyncKernelPort(s, env, kernel_port, db_port) ==
    LET s1 == SetEach(s, env, RTM_DELADDR, db_port.name, AF_INET, FALSE,
                      NotInDb(db_port, AF_INET, HashOrder(kernel_port.ip4addr)))
        s2 == SetEach(s1, env, RTM_DELADDR, db_port.name, AF_INET6, FALSE,
                      NotInDb(db_port, AF_INET6, HashOrder(kernel_port.ip6addr)))
        s3 == SetEach(s2, env, RTM_NEWADDR, db_port.name, AF_INET, FALSE,
                      NotInKernel(kernel_port, AF_INET, PrimarySeq(db_port, AF_INET)))
        s4 == SetEach(s3, env, RTM_NEWADDR, db_port.name, AF_INET6, FALSE,
                      NotInKernel(kernel_port, AF_INET6, PrimarySeq(db_port, AF_INET6)))
        s5 == SetEach(s4, env, RTM_NEWADDR, db_port.name, AF_INET, TRUE,
                      NotInKernel(kernel_port, AF_INET,
                                  HmapNodes(db_port.secondary_ip4addr)))
        s6 == SetEach(s5, env, RTM_NEWADDR, db_port.name, AF_INET6, TRUE,
                      NotInKernel(kernel_port, AF_INET6,
                                  HmapNodes(db_port.secondary_ip6addr)))
    IN  portd_add_port_to_cache(s6, db_port)

\* the loop over kernel_port_list
RECURSIVE StartupLoop(_, _, _, _, _)
StartupLoop(s, env, kernel_port_list, db_port_list, names) ==
    IF names = <<>> THEN s
    ELSE LET kernel_port == kernel_port_list[Head(names)]
         IN  StartupLoop(
                 IF Head(names) \notin DOMAIN db_port_list
                   THEN PurgeKernelPort(s, env, kernel_port)
                   ELSE SyncKernelPort(s, env, kernel_port, db_port_list[Head(names)]),
                 env, kernel_port_list, db_port_list, Tail(names))

\* db: port name -> CONFIG port row (NoRow: no such L3 port)
portd_ipaddr_config_on_init(s, env, db) ==
    LET kernel_port_list == portd_populate_kernel_ip_addr(s.kernel)
        db_port_list     == portd_populate_db_ip_addr(db, env.vrf)
    IN  StartupLoop(s, env, kernel_port_list, db_port_list,
                    HashOrder(DOMAIN kernel_port_list))

-----------------------------------------------------------------------------
(* Inputs: interfaces, address texts, CONFIG rows, environments *)

Ports == {"p1", "p2"}

IfNames == Ports \cup {"eth9", LOOPBACK_INTERFACE_NAME}

H5 == <<10, 0, 0, 5>>
H6 == <<10, 0, 0, 6>>
H9 == <<192, 0, 2, 99>>
G1 == <<32, 1, 13, 184, 0, 0, 0, 0, 0, 0, 0, 0, 0, 0, 0, 1>>
G2 == <<32, 1, 13, 184, 0, 0, 0, 0, 0, 0, 0, 0, 0, 0, 0, 2>>
LL == <<254, 128, 0, 0, 0, 0, 0, 0, 0, 0, 0, 0, 0, 0, 0, 1>>
H127 == <<127, 0, 0, 1>>

\* "10.0.0.5/24", "10.0.0.5/25", "10.0.0.6/24", "10.0.0.5/024", "junk/24"
A24 == Text(H5, 24)
A25 == Text(H5, 25)
A6  == Text(H6, 24)
A24alt == AltText(H5, 24)
BAD == Text(<<>>, 24)
\* "192.0.2.99/24"
X99 == Text(H9, 24)
\* "2001:db8::1/64", "2001:DB8::1/64", "2001:db8::2/64"
B1 == Text(G1, 64)
B1alt == AltText(G1, 64)
B2 == Text(G2, 64)

SeqsUpTo(S, n) == UNION {[1..k -> S] : k \in 0..n}

Row(name, p4, p6, s4, s6) ==
    [name |-> name, ip4_address |-> p4, ip6_address |-> p6,
     ip4_address_secondary |-> s4, ip6_address_secondary |-> s6]

RowCount(row) ==
    (IF row.ip4_address # NULL THEN 1 ELSE 0) + (IF row.ip6_address # NULL THEN 1 ELSE 0)
        + Len(row.ip4_address_secondary) + Len(row.ip6_address_secondary)

\* the rows of port `name` over the given menus of texts
RowsOver(name, P4, P6, S4, S6) ==
    {row \in {Row(name, p4, p6, s4, s6) :
                 p4 \in P4 \cup {NULL}, p6 \in P6 \cup {NULL},
                 s4 \in SeqsUpTo(S4, MaxSecondary),
                 s6 \in SeqsUpTo(S6, MaxSecondary)} :
        RowCount(row) <= MaxRowAddrs}

EmptyRow(name) == Row(name, NULL, NULL, <<>>, <<>>)

\* environments of one handler call: interface names unknown to
\* if_nametoindex, positions of the call's send()s that fail, VRF record
KAddr(family, host, len, scope) ==
    [family |-> family, host |-> host, len |-> len, scope |-> scope]

-----------------------------------------------------------------------------
(* The state machine *)

\* call.op    "none" between passes, "startup", "reconfig"
\* call.port  the port a reconfig call was made for
\* call.row   its CONFIG port row; call.m4, call.m6 the column-modified flags
\* call.pre   the PortState it started from
\* call.again "reconfig" or "startup" when the call before it was of that
\*            kind and handled the same port with the same row, else "none";
\*            call.prevfail are then the kernel requests that call issued for
\*            the port and did not get sent
\* call.db    the CONFIG port rows a startup call, or a pass over several
\*            ports, read
\* call.order     for a pass over several ports (op "pass"): the ports in the
\*                order they were handled; call.pre then maps every port to
\*                its PortState before the pass
\* call.kernel0   what the kernel held before a pass or a startup call
NoCall ==
    [op |-> "none", port |-> NULLSTR, row |-> NoRow, m4 |-> FALSE, m6 |-> FALSE,
     pre |-> NoPort, again |-> "none", prevfail |-> {}, db |-> <<>>,
     order |-> <<>>, kernel0 |-> <<>>]

\* the kernel requests of a call's log that were not sent, for one port
Unsent(log, name) ==
    {[cmd |-> log[i].cmd, family |-> log[i].family, address |-> log[i].address,
      secondary |-> log[i].secondary] :
        i \in {j \in DOMAIN log : /\ log[j].ev = "addr"
                                  /\ log[j].port = name
                                  /\ log[j].res # "sent"}}

\* the CONFIG row the call just made was given for port p, if any
LastRow(p) ==
    IF call.op = "reconfig" /\ call.port = p THEN call.row
    ELSE IF call.op = "startup" /\ ports[p] # NoPort THEN call.db[p]
    ELSE NoRow

InitOver(kernels, vrfs) ==
    /\ ports = [p \in Ports |-> NoPort]
    /\ kernel \in kernels
    /\ routes = <<>>
    /\ commit_txn = FALSE
    /\ vrf \in vrfs
    /\ phase = "boot"
    /\ call = NoCall
    /\ ops = <<>>

\* portd_ipaddr_config_on_init runs once, before the main loop
Startup(db, env) ==
    /\ phase = "boot"
    /\ LET s0 == [ports |-> ports, kernel |-> kernel, routes |-> routes,
                  commit_txn |-> commit_txn, ops |-> <<>>, nsend |-> 0]
       IN  \E s1 \in {portd_ipaddr_config_on_init(s0, env, db)} :
              /\ ports' = s1.ports
              /\ kernel' = s1.kernel
              /\ ops' = s1.ops
              /\ call' = [NoCall EXCEPT !.op = "startup", !.db = db,
                                        !.kernel0 = kernel]
    /\ phase' = "main"
    /\ UNCHANGED <<routes, commit_txn, vrf>>

\* one main-loop call for port p: the host looks the port up in the VRF port
\* map (creating an empty PortState when it is not there) and calls
\* portd_reconfig_ipaddr with the CONFIG row
Reconfigure(p, port_row, m4, m6, env) ==
    /\ phase = "main"
    /\ Len(routes) <= MaxRoutes
    /\ LET port0 == IF ports[p] = NoPort THEN NewPort(p) ELSE ports[p]
           s0 == [port |-> port0, kernel |-> kernel, routes |-> routes,
                  commit_txn |-> commit_txn, ops |-> <<>>, nsend |-> 0]
       IN  \E s1 \in {portd_reconfig_ipaddr(s0, env, port_row, m4, m6)} :
              /\ ports' = [ports EXCEPT ![p] = s1.port]
              /\ kernel' = s1.kernel
              /\ routes' = s1.routes
              /\ commit_txn' = s1.commit_txn
              /\ ops' = s1.ops
              /\ call' = [NoCall EXCEPT
                            !.op = "reconfig", !.port = p, !.row = port_row,
                            !.m4 = m4, !.m6 = m6, !.pre = port0,
                            !.again = IF LastRow(p) = port_row THEN call.op ELSE "none",
                            !.prevfail = IF LastRow(p) = port_row
                                           THEN Unsent(ops, p) ELSE {}]
    /\ UNCHANGED <<vrf, phase>>

\* the handler's view when the host calls it for port p during a pass, and
\* the pass's view when the handler returns
EnterPort(s, p) ==
    [port |-> IF s.ports[p] = NoPort THEN NewPort(p) ELSE s.ports[p],
     kernel |-> s.kernel, routes |-> s.routes, commit_txn |-> s.commit_txn,
     ops |-> s.ops, nsend |-> s.nsend]

LeavePort(s, p, s1) ==
    [ports |-> [s.ports EXCEPT ![p] = s1.port], kernel |-> s1.kernel,
     routes |-> s1.routes, commit_txn |-> s1.commit_txn,
     ops |-> s1.ops, nsend |-> s1.nsend]

\* portd_reconfig_ipaddr for each port of a pass, in order
RECURSIVE ReconfigureEach(_, _, _, _, _, _)
ReconfigureEach(s, env, db, m4, m6, order) ==
    IF order = <<>> THEN s
    ELSE ReconfigureEach(
             LeavePort(s, Head(order),
                       portd_reconfig_ipaddr(EnterPort(s, Head(order)), env,
                                             db[Head(order)], m4, m6)),
             env, db, m4, m6, Tail(order))

\* one main-loop pass in which the CONFIG rows of several ports changed: the
\* host calls portd_reconfig_ipaddr for each of them in turn
Pass(order, db, m4, m6, env) ==
    /\ phase = "main"
    /\ LET s0 == [ports |-> ports, kernel |-> kernel, routes |-> routes,
                  commit_txn |-> commit_txn, ops |-> <<>>, nsend |-> 0]
       IN  \E s1 \in {ReconfigureEach(s0, env, db, m4, m6, order)} :
              /\ ports' = s1.ports
              /\ kernel' = s1.kernel
              /\ routes' = s1.routes
              /\ commit_txn' = s1.commit_txn
              /\ ops' = s1.ops
              /\ call' = [NoCall EXCEPT
                            !.op = "pass", !.order = order, !.db = db,
                            !.m4 = m4, !.m6 = m6,
                            !.pre = [p \in Ports |->
                                        IF ports[p] = NoPort THEN NewPort(p)
                                        ELSE ports[p]],
                            !.kernel0 = kernel]
    /\ UNCHANGED <<vrf, phase>>

\* the host ends the pass: it commits the CONFIG transaction and goes back to
\* waiting for CONFIG changes
PassEnd ==
    /\ call.op # "none"
    /\ call' = NoCall
    /\ ops' = <<>>
    /\ commit_txn' = FALSE
    /\ UNCHANGED <<ports, kernel, routes, vrf, phase>>

\* between passes the CONFIG gains its VRF record
VrfAdd ==
    /\ call.op = "none"
    /\ phase = "main"
    /\ ~vrf
    /\ vrf' = TRUE
    /\ UNCHANGED <<ports, kernel, routes, commit_txn, phase, call, ops>>

-----------------------------------------------------------------------------
(* Spec: startup, then main-loop passes over one port; every kernel request *)
(* is delivered                                                             *)

OnIf(ifname, addrs) == [n \in IfNames |-> IF n = ifname THEN addrs ELSE {}]

NoFailure == {[noif |-> {}, sendfail |-> {}, vrf |-> vrf]}

MainRows == RowsOver("p1", {A24, A25}, {B1}, {A24, X99}, {B2})

MainKernels ==
    {OnIf("p1", {}),
     OnIf("p1", {KAddr(AF_INET, H5, 24, "global"), KAddr(AF_INET, H9, 24, "global")})}

Init == InitOver(MainKernels, BOOLEAN)

Next ==
    \/ \E row \in MainRows \cup {NoRow}, env \in NoFailure :
          Startup([p \in Ports |-> IF p = "p1" THEN row ELSE NoRow], env)
    \/ /\ call.op = "none"
       /\ \E row \in MainRows, m4 \in BOOLEAN, m6 \in BOOLEAN, env \in NoFailure :
             Reconfigure("p1", row, m4, m6, env)
    \/ /\ LastRow("p1") # NoRow
       /\ \E m4 \in BOOLEAN, m6 \in BOOLEAN, env \in NoFailure :
             Reconfigure("p1", LastRow("p1"), m4, m6, env)
    \/ PassEnd
    \/ VrfAdd

Spec == Init /\ [][Next]_vars

-----------------------------------------------------------------------------
(* SpecFail: one port; interface lookups and sends may fail, a primary may *)
(* be unparsable, the VRF record may be missing                            *)

\* environments of one handler call: no failure, the k-th send() of the call
\* fails, or if_nametoindex does not know the interface
Envs(names) ==
    {[noif |-> {}, sendfail |-> {}, vrf |-> vrf]}
        \cup {[noif |-> {}, sendfail |-> {k}, vrf |-> vrf] : k \in 1..MaxFailPos}
        \cup {[noif |-> {n}, sendfail |-> {}, vrf |-> vrf] : n \in names}

FailRows == RowsOver("p1", {A24, BAD}, {B1}, {X99}, {})

FailKernels ==
    {OnIf("p1", {}), OnIf("p1", {KAddr(AF_INET, H5, 24, "global")})}

InitFail == InitOver(FailKernels, BOOLEAN)

NextFail ==
    \/ \E row \in FailRows \cup {NoRow}, env \in Envs({"p1"}) :
          Startup([p \in Ports |-> IF p = "p1" THEN row ELSE NoRow], env)
    \/ /\ call.op = "none"
       /\ \E row \in FailRows, m4 \in BOOLEAN, m6 \in BOOLEAN, env \in Envs({"p1"}) :
             Reconfigure("p1", row, m4, m6, env)
    \/ /\ LastRow("p1") # NoRow
       /\ \E m4 \in BOOLEAN, m6 \in BOOLEAN, env \in NoFailure :
             Reconfigure("p1", LastRow("p1"), m4, m6, env)
    \/ PassEnd

SpecFail == InitFail /\ [][NextFail]_vars

-----------------------------------------------------------------------------
(* SpecBoot: portd_ipaddr_config_on_init over two CONFIG ports and a kernel *)
(* that holds addresses on them, on an interface CONFIG does not know and   *)
(* on the loopback                                                          *)

BootRows(name) ==
    IF name = "p1" THEN RowsOver("p1", {A24, A24alt}, {B1, B1alt}, {X99}, {}) \cup {NoRow}
    ELSE {Row("p2", A6, NULL, <<>>, <<>>), NoRow}

BootAddrs(ifname) ==
    IF ifname = "p1"
      THEN {KAddr(AF_INET, H5, 24, "global"), KAddr(AF_INET, H9, 24, "global"),
            KAddr(AF_INET6, G1, 64, "global"), KAddr(AF_INET6, LL, 64, "link")}
    ELSE IF ifname = "p2" THEN {KAddr(AF_INET, H6, 24, "global")}
    ELSE IF ifname = "eth9" THEN {KAddr(AF_INET, H9, 24, "global")}
    ELSE {KAddr(AF_INET, H127, 8, "host")}

BootKernels ==
    {[n \in IfNames |-> CASE n = "p1" -> k1 [] n = "p2" -> k2
                           [] n = "eth9" -> k9 [] OTHER -> klo] :
        k1 \in SUBSET BootAddrs("p1"), k2 \in SUBSET BootAddrs("p2"),
        k9 \in SUBSET BootAddrs("eth9"),
        klo \in SUBSET BootAddrs(LOOPBACK_INTERFACE_NAME)}

InitBoot == InitOver(BootKernels, {TRUE})

NextBoot ==
    \E r1 \in BootRows("p1"), r2 \in BootRows("p2"), env \in NoFailure :
        Startup([p \in Ports |-> IF p = "p1" THEN r1 ELSE r2], env)

SpecBoot == InitBoot /\ [][NextBoot]_vars

-----------------------------------------------------------------------------
(* SpecPeers: two ports whose IPv4 addresses come from one pool, so that a  *)
(* pass can move an address from one port to the other                     *)

PeerRows(name) ==
    {row \in {Row(name, p4, NULL, s4, <<>>) : p4 \in {NULL, A24, A6},
                                             s4 \in SeqsUpTo({A24, A6}, 1)} :
        RowCount(row) <= MaxPeerAddrs}

PeerOrders == {<<"p1">>, <<"p2">>, <<"p1", "p2">>, <<"p2", "p1">>}

PeerKernels == {OnIf("p1", {}), OnIf("p1", {KAddr(AF_INET, H5, 24, "global")})}

InitPeers == InitOver(PeerKernels, BOOLEAN)

NextPeers ==
    \/ \E row \in {Row("p1", A24, NULL, <<>>, <<>>), Row("p1", A6, NULL, <<>>, <<>>)},
          env \in NoFailure :
          Startup([p \in Ports |-> IF p = "p1" THEN row ELSE NoRow], env)
    \/ /\ call.op = "none"
       /\ \E order \in PeerOrders, r1 \in PeerRows("p1"), r2 \in PeerRows("p2"),
             m4 \in BOOLEAN, env \in NoFailure :
             /\ "p1" \notin Range(order) => r1 = EmptyRow("p1")
             /\ "p2" \notin Range(order) => r2 = EmptyRow("p2")
             /\ Pass(order, [p \in Ports |-> IF p = "p1" THEN r1 ELSE r2],
                     m4, FALSE, env)
    \/ PassEnd
    \/ VrfAdd

SpecPeers == InitPeers /\ [][NextPeers]_vars

-----------------------------------------------------------------------------
(* Properties *)

Families == {AF_INET, AF_INET6}

ModifiedIn(c, family) == IF family = AF_INET THEN c.m4 ELSE c.m6

Modified(family) == ModifiedIn(call, family)

\* the PortState the last reconfigure call left behind
Post == ports[call.port]

\* the kernel requests, route writes, ... of the last call, by kind
OpsOf(kind) == {i \in DOMAIN ops : ops[i].ev = kind}

\* C1 as stated: after every reconfigure call, whatever the flags and the
\* failures, the PortState's two primaries and two secondary sets are those
\* of the row the call was given.
C1_ReplayAnyFlags ==
    call.op = "reconfig" =>
        \A family \in Families :
            /\ Primary(Post, family) = RowPrimary(call.row, family)
            /\ BagToSet(Secondary(Post, family)) = Range(RowSecondary(call.row, family))

\* C1: after every reconfigure call, whatever the failures, the PortState's
\* two primaries are those of the row; the secondary set of a family whose
\* column-modified flag was set holds exactly the distinct entries of the
\* row's column, and that of a family whose flag was clear is what it was
\* before the call.
C1_ReplayModified ==
    call.op = "reconfig" =>
        \A family \in Families :
            /\ Primary(Post, family) = RowPrimary(call.row, family)
            /\ Modified(family) =>
                  BagToSet(Secondary(Post, family))
                      = Range(RowSecondary(call.row, family))
            /\ ~Modified(family) =>
                  Secondary(Post, family) = Secondary(call.pre, family)

\* a call that replaced a primary and ran the v4 diff while a send failed
C1_Witness ==
    /\ call.op = "reconfig"
    /\ call.m4
    /\ Primary(call.pre, AF_INET) # NULL
    /\ Primary(call.pre, AF_INET) # Primary(Post, AF_INET)
    /\ Primary(Post, AF_INET) # NULL
    /\ BagToSet(Secondary(Post, AF_INET)) # BagToSet(Secondary(call.pre, AF_INET))
    /\ \E i \in OpsOf("addr") : ops[i].res = "sendfail"

\* the addresses the kernel holds on an interface, link-scope IPv6 aside
KernelSet(ifname) ==
    {[family |-> a.family, host |-> a.host, len |-> a.len] :
        a \in {b \in kernel[ifname] : b.scope # "link"}}

\* the texts of a CONFIG port row, by family
RowTexts(port_row, family) ==
    (IF RowPrimary(port_row, family) # NULL THEN {RowPrimary(port_row, family)} ELSE {})
        \cup Range(RowSecondary(port_row, family))

\* the addresses a CONFIG port row asks for
RowSet(port_row) ==
    UNION {{[family |-> family,
             host |-> portd_get_prefix(family, a).host,
             len |-> portd_get_prefix(family, a).len] :
               a \in {b \in RowTexts(port_row, family) : portd_get_prefix(family, b).ok}} :
           family \in Families}

AllSent == \A i \in OpsOf("addr") : ops[i].res = "sent"

\* C2 as stated: after a startup whose kernel operations all succeeded, on
\* every L3 port of CONFIG, the ones the dump reported no address on
\* included, the kernel holds exactly the port's CONFIG addresses.
C2_ConvergenceEveryPort ==
    (call.op = "startup" /\ vrf /\ AllSent) =>
        \A p \in Ports : call.db[p] # NoRow => KernelSet(p) = RowSet(call.db[p])

\* C2: after a startup whose kernel operations all succeeded, on every L3
\* port of CONFIG on whose interface the address dump reported at least one
\* address the kernel holds exactly the port's CONFIG addresses and the port
\* is cached; a CONFIG port the dump reported no address on is neither
\* written to nor cached.
C2_ConvergenceDumpedPorts ==
    (call.op = "startup" /\ vrf /\ AllSent) =>
        \A p \in Ports : call.db[p] # NoRow =>
            IF ports[p] # NoPort
              THEN KernelSet(p) = RowSet(call.db[p])
              ELSE /\ KernelSet(p) = {}
                   /\ \A i \in DOMAIN ops : ops[i].port # p

\* a startup that deleted a stale address from p1 and added a missing one,
\* while CONFIG port p2 had no address in the kernel
C2_Witness ==
    /\ call.op = "startup" /\ vrf /\ AllSent
    /\ ports["p1"] # NoPort
    /\ \E i \in OpsOf("addr") : ops[i].port = "p1" /\ ops[i].cmd = RTM_DELADDR
    /\ \E i \in OpsOf("addr") : ops[i].port = "p1" /\ ops[i].cmd = RTM_NEWADDR
    /\ call.db["p2"] # NoRow
    /\ ports["p2"] = NoPort
    /\ KernelSet("p1") = RowSet(call.db["p1"])

\* the connected route rows of one port and family
ConnectedRows(p, family) ==
    {i \in DOMAIN routes :
        /\ routes[i].from = "connected"
        /\ routes[i].address_family = FamilyName(family)
        /\ routes[i].nexthops = <<[ports |-> <<p>>]>>}

\* those of them that carry the canonical masked prefix of an address text
RowsFor(p, family, address) ==
    {i \in ConnectedRows(p, family) :
        /\ RoutePrefix(family, address).ok
        /\ routes[i].prefix = RoutePrefix(family, address).prefix}

\* the primary a port is known to hold (NULL for a port not in the port map)
Held(p, family) == IF ports[p] = NoPort THEN NULL ELSE Primary(ports[p], family)

AtMostOneRoute ==
    \A p \in Ports, family \in Families :
        /\ Cardinality(ConnectedRows(p, family)) <= 1
        /\ ConnectedRows(p, family) # {} =>
              /\ Held(p, family) # NULL
              /\ ConnectedRows(p, family) = RowsFor(p, family, Held(p, family))

\* a pass that stored a new parsable primary leaves exactly one row for it
\* when a VRF record exists and none when there is no VRF record
RouteWrittenWithPrimary ==
    call.op = "pass" =>
        \A i \in DOMAIN call.order, family \in Families :
            LET p   == call.order[i]
                old == Primary(call.pre[p], family)
                new == RowPrimary(call.db[p], family)
            IN  (new # NULL /\ new # old /\ RoutePrefix(family, new).ok) =>
                    Cardinality(RowsFor(p, family, new)) = IF vrf THEN 1 ELSE 0

\* startup writes no route row
NoRouteFromStartup == call.op = "startup" => routes = <<>>

\* while a port's stored primary stays the same its connected route rows
\* stay the same
RouteKeptWithPrimary ==
    \A p \in Ports, family \in Families :
        (ports[p] # NoPort /\ ports'[p] # NoPort
            /\ Primary(ports'[p], family) = Primary(ports[p], family)) =>
                {routes'[i].prefix : i \in ConnectedRows(p, family)'}
                    = {routes[i].prefix : i \in ConnectedRows(p, family)}

Unlinked(family) ==
    {ops[i].address : i \in {j \in OpsOf("unlink") : ops[j].family = family}}

Linked(family) ==
    {ops[i].address : i \in {j \in OpsOf("link") : ops[j].family = family}}

\* C4 as stated: after the diff of a family has run, the PortState secondary
\* collection and the CONFIG column are equal as multisets, and no key was
\* both removed and added.
C4_DiffEqualMultisets ==
    \A family \in Families :
        (call.op = "reconfig" /\ Modified(family)) =>
            /\ Secondary(Post, family) = SeqToBag(RowSecondary(call.row, family))
            /\ Unlinked(family) \cap Linked(family) = {}

\* C4: after the diff of a family has run, the PortState secondary collection
\* holds exactly the distinct keys of the CONFIG column: a key it already
\* held keeps the nodes it had, a key it did not hold gets one node however
\* often the column lists it; and no key was both removed and added.
C4_DiffEqualSets ==
    \A family \in Families :
        (call.op = "reconfig" /\ Modified(family)) =>
            LET desired == Range(RowSecondary(call.row, family))
                before  == Secondary(call.pre, family)
                after   == Secondary(Post, family)
            IN  /\ BagToSet(after) = desired
                /\ \A k \in desired :
                      CopiesIn(k, after)
                          = IF BagIn(k, before) THEN CopiesIn(k, before) ELSE 1
                /\ Unlinked(family) \cap Linked(family) = {}
                /\ Unlinked(family) = BagToSet(before) \ desired
                /\ Linked(family) = desired \ BagToSet(before)

\* a diff that removed one key and added another from a column listing it twice
C4_Witness ==
    /\ call.op = "reconfig" /\ call.m4
    /\ Unlinked(AF_INET) # {}
    /\ \E k \in Linked(AF_INET) :
          CopiesIn(k, SeqToBag(call.row.ip4_address_secondary)) = 2

\* the kernel requests of the last call for one family, primary or secondary
AddrOps(family, secondary) ==
    {i \in OpsOf("addr") : ops[i].family = family /\ ops[i].secondary = secondary}

\* the last call found a primary of the family stored and another one in the row
Replaced(family) ==
    /\ call.op = "reconfig"
    /\ Primary(call.pre, family) # NULL
    /\ RowPrimary(call.row, family) # NULL
    /\ Primary(call.pre, family) # RowPrimary(call.row, family)

\* C5: in one reconfigure call, a primary replace issues the kernel DEL of
\* the old address before the kernel ADD of the new one, and a secondary diff
\* issues every kernel DEL before any kernel ADD.
C5_DelBeforeAdd ==
    call.op = "reconfig" =>
        \A family \in Families :
            /\ Replaced(family) =>
                  \E i, j \in AddrOps(family, FALSE) :
                      /\ i < j
                      /\ ops[i].cmd = RTM_DELADDR
                      /\ ops[i].address = Primary(call.pre, family)
                      /\ ops[j].cmd = RTM_NEWADDR
                      /\ ops[j].address = RowPrimary(call.row, family)
            /\ \A i, j \in AddrOps(family, FALSE) :
                  (ops[i].cmd = RTM_DELADDR /\ ops[j].cmd = RTM_NEWADDR) => i < j
            /\ \A i, j \in AddrOps(family, TRUE) :
                  (ops[i].cmd = RTM_DELADDR /\ ops[j].cmd = RTM_NEWADDR) => i < j

\* a call that replaced the v4 primary and whose v4 diff deleted one
\* secondary and added another
C5_Witness ==
    /\ Replaced(AF_INET)
    /\ \E i \in AddrOps(AF_INET, TRUE) : ops[i].cmd = RTM_DELADDR
    /\ \E i \in AddrOps(AF_INET, TRUE) : ops[i].cmd = RTM_NEWADDR

\* what the kernel holds after one more event of a log
KernelStep(k, e) ==
    IF e.ev = "addr" /\ e.res = "sent"
      THEN KernelApply(k, e.cmd, e.port, e.family,
                       portd_get_prefix(e.family, e.address).host,
                       portd_get_prefix(e.family, e.address).len)
      ELSE k

\* what the kernel holds before a log and after each of its events
RECURSIVE KernelsAlong(_, _)
KernelsAlong(k, log) ==
    IF log = <<>> THEN <<k>>
    ELSE <<k>> \o KernelsAlong(KernelStep(k, Head(log)), Tail(log))

AddrsOn(k, ifname) ==
    {[family |-> a.family, host |-> a.host, len |-> a.len] : a \in k[ifname]}

PoolAddrs == {[family |-> AF_INET, host |-> H5, len |-> 24],
              [family |-> AF_INET, host |-> H6, len |-> 24]}

\* the last pass handled both ports and moved address a from p1 to p2 and
\* address b from p2 to p1
Exchanged(a, b) ==
    /\ call.op = "pass"
    /\ Len(call.order) = 2
    /\ a # b
    /\ a \in AddrsOn(call.kernel0, "p1") \ AddrsOn(call.kernel0, "p2")
    /\ b \in AddrsOn(call.kernel0, "p2") \ AddrsOn(call.kernel0, "p1")
    /\ b \in AddrsOn(kernel, "p1") \ AddrsOn(kernel, "p2")
    /\ a \in AddrsOn(kernel, "p2") \ AddrsOn(kernel, "p1")

\* C6 as stated: when a pass exchanges an address between the two ports, at
\* no point of its kernel operations is one address on both interfaces.
C6_NeverOnBoth ==
    \A a, b \in PoolAddrs :
        Exchanged(a, b) =>
            \A i \in DOMAIN KernelsAlong(call.kernel0, ops) :
                AddrsOn(KernelsAlong(call.kernel0, ops)[i], "p1")
                    \cap AddrsOn(KernelsAlong(call.kernel0, ops)[i], "p2") = {}

\* a pass over p1 then p2 that exchanged their primaries
C6_Witness ==
    /\ call.op = "pass" /\ call.order = <<"p1", "p2">>
    /\ \E a, b \in PoolAddrs : Exchanged(a, b)
    /\ Primary(call.pre["p1"], AF_INET) = Held("p2", AF_INET)
    /\ Primary(call.pre["p2"], AF_INET) = Held("p1", AF_INET)
    /\ Held("p1", AF_INET) # NULL
    /\ \E i \in DOMAIN KernelsAlong(call.kernel0, ops) :
          AddrsOn(KernelsAlong(call.kernel0, ops)[i], "p1")
              \cap AddrsOn(KernelsAlong(call.kernel0, ops)[i], "p2") # {}

\* the last call issued the kernel request u again
Reissued(u) ==
    \E i \in OpsOf("addr") :
        /\ ops[i].cmd = u.cmd
        /\ ops[i].family = u.family
        /\ ops[i].address = u.address
        /\ ops[i].secondary = u.secondary

\* C7 as stated: when a reconfigure call is followed by another one for the
\* same port with the same CONFIG row, every kernel request of the first
\* that failed is issued again by the second.
C7_FailedOpReissued ==
    (call.op = "reconfig" /\ call.again = "reconfig") =>
        \A u \in call.prevfail : Reissued(u)

\* a second call on the same row, after a call whose ADD of the primary was
\* not sent: nothing fails any more, nothing is issued, and the kernel still
\* lacks the address
C7_Witness ==
    /\ call.op = "reconfig" /\ call.again = "reconfig"
    /\ call.m4 /\ call.m6
    /\ \E u \in call.prevfail :
          /\ u.cmd = RTM_NEWADDR
          /\ u.address = A24
          /\ ~u.secondary
    /\ call.row.ip4_address = A24
    /\ ops = <<>>
    /\ KernelSet("p1") = {}

\* the route writes of the last call for one family
RouteOps(family) == {i \in OpsOf("route") : ops[i].family = family}

RouteCmd(cmd) == IF cmd = RTM_NEWADDR THEN "ADD" ELSE "DEL"

\* C8: in one reconfigure call every connected-route insert comes right after
\* the kernel ADD of the same primary and every connected-route delete right
\* after the kernel DEL of the same primary; and every kernel request for a
\* primary is followed by its route write.
C8_KernelBeforeRoute ==
    call.op = "reconfig" =>
        \A family \in Families :
            /\ \A j \in RouteOps(family) :
                  /\ j > 1
                  /\ (j - 1) \in AddrOps(family, FALSE)
                  /\ RouteCmd(ops[j - 1].cmd) = ops[j].cmd
                  /\ ops[j - 1].address = ops[j].address
            /\ \A i \in AddrOps(family, FALSE) : (i + 1) \in RouteOps(family)

\* a call that replaced the v4 primary and added a v6 primary, the four
\* route writes done
C8_Witness ==
    /\ Replaced(AF_INET)
    /\ Primary(call.pre, AF_INET6) = NULL
    /\ RowPrimary(call.row, AF_INET6) # NULL
    /\ Cardinality(RouteOps(AF_INET)) = 2
    /\ \A j \in RouteOps(AF_INET) \cup RouteOps(AF_INET6) : ops[j].res = "ok"
    /\ Len(routes) = 2

\* what the last call did about the primary of one family: kernel requests,
\* route writes and stores, in order, as <<kind, command, address>>
RECURSIVE PrimaryLog(_, _)
PrimaryLog(log, family) ==
    IF log = <<>> THEN <<>>
    ELSE LET e == Head(log)
         IN  (IF /\ e.family = family
                 /\ ~e.secondary
                 /\ e.ev \in {"addr", "route", "store"}
                THEN <<<<e.ev, e.cmd, e.address>>>> ELSE <<>>)
                 \o PrimaryLog(Tail(log), family)

\* C9: when the PortState and the CONFIG row both hold a primary of a family
\* and the strings differ, the call does exactly this about that primary, in
\* this order: kernel DEL of the old one, delete of its connected route,
\* store of the new one, kernel ADD of the new one, insert of its connected
\* route.
C9_ReplaceSequence ==
    \A family \in Families :
        Replaced(family) =>
            LET old == Primary(call.pre, family)
                new == RowPrimary(call.row, family)
            IN  /\ PrimaryLog(ops, family) =
                      << <<"addr", RTM_DELADDR, old>>, <<"route", "DEL", old>>,
                         <<"store", "SET", new>>,
                         <<"addr", RTM_NEWADDR, new>>, <<"route", "ADD", new>> >>
                /\ Primary(Post, family) = new

\* the primary went from 10.0.0.5/24 to 10.0.0.5/25: the route table holds
\* 10.0.0.0/25 and no longer 10.0.0.0/24
C9_Witness ==
    /\ Replaced(AF_INET)
    /\ Primary(call.pre, AF_INET) = A24
    /\ RowPrimary(call.row, AF_INET) = A25
    /\ \E i \in DOMAIN routes : routes[i].prefix = Text(<<10, 0, 0, 0>>, 25)
    /\ \A i \in DOMAIN routes : routes[i].prefix # Text(<<10, 0, 0, 0>>, 24)
    /\ \E i \in RouteOps(AF_INET) : ops[i].cmd = "DEL" /\ ops[i].res = "ok"

\* C10 as stated: a second reconfigure call with the same CONFIG row,
\* whatever its flags, emits no kernel request and no route write and leaves
\* the PortState as it was.
C10_SecondCallSilent ==
    (call.op = "reconfig" /\ call.again = "reconfig") =>
        /\ ops = <<>>
        /\ Post = call.pre

\* a call does nothing about a primary whose string in the row is the one
\* stored, both absent included
EqualPrimaryNoOp ==
    call.op = "reconfig" =>
        \A family \in Families :
            Primary(call.pre, family) = RowPrimary(call.row, family) =>
                PrimaryLog(ops, family) = <<>>

\* a second call with the same row does nothing about the primaries and
\* writes no route; it does nothing about the secondaries of a family whose
\* flag is clear now or was set in the first call
SecondCallStep ==
    (call.op = "reconfig" /\ call'.op = "reconfig" /\ call'.again = "reconfig") =>
        /\ routes' = routes
        /\ \A family \in Families :
              /\ PrimaryLog(ops', family) = <<>>
              /\ Primary(ports'[call'.port], family)
                    = Primary(ports[call'.port], family)
              /\ (ModifiedIn(call, family) \/ ~ModifiedIn(call', family)) =>
                    /\ \A i \in DOMAIN ops' : ops'[i].family # family
                    /\ Secondary(ports'[call'.port], family)
                          = Secondary(ports[call'.port], family)
        /\ (\A family \in Families :
               ModifiedIn(call, family) \/ ~ModifiedIn(call', family)) =>
              /\ ops' = <<>>
              /\ ports' = ports
              /\ kernel' = kernel

\* C10: a reconfigure call does nothing about a primary whose string in the
\* row is byte-identical to the stored one, or absent in both.  A second call
\* with the same CONFIG row emits no kernel request for a primary and no
\* route write, and leaves the primaries as they were; for the secondaries
\* of a family it emits nothing and changes nothing if that family's flag is
\* clear in the second call or was set in the first.
C10_Idempotent ==
    /\ []EqualPrimaryNoOp
    /\ [][SecondCallStep]_vars

\* a second call with both flags set on a row with a primary and a
\* secondary: nothing emitted, nothing changed
C10_Witness ==
    /\ call.op = "reconfig" /\ call.again = "reconfig"
    /\ call.m4 /\ call.m6
    /\ call.row.ip4_address # NULL
    /\ call.row.ip4_address_secondary # <<>>
    /\ BagToSet(Secondary(Post, AF_INET)) = Range(call.row.ip4_address_secondary)
    /\ ops = <<>>
    /\ Post = call.pre

\* the interfaces the address dump of a kernel reports
DumpedPorts(kern) == DOMAIN portd_populate_kernel_ip_addr(kern)

\* a port the dump reported and CONFIG holds is in the port map after
\* startup, with the primaries and the secondary keys of its CONFIG row
StartupCaches ==
    (call.op = "startup" /\ vrf) =>
        \A p \in Ports :
            (call.db[p] # NoRow /\ p \in DumpedPorts(call.kernel0)) =>
                /\ ports[p] # NoPort
                /\ \A family \in Families :
                      /\ Primary(ports[p], family) = RowPrimary(call.db[p], family)
                      /\ BagToSet(Secondary(ports[p], family))
                            = Range(RowSecondary(call.db[p], family))

\* the reconfigure call that follows startup with the unchanged row of a
\* cached port does nothing, whatever its flags
FirstCallSilent ==
    (call.op = "startup" /\ call'.op = "reconfig" /\ call'.again = "startup") =>
        /\ ops' = <<>>
        /\ kernel' = kernel
        /\ routes' = routes
        /\ commit_txn' = commit_txn
        /\ ports' = ports

\* C11: startup inserts the PortState of every port that is both in the
\* kernel dump and in CONFIG into the VRF port map, and the first reconfigure
\* call for such a port with the unchanged CONFIG row emits no kernel request
\* and writes no route row.
C11_StartupCachingSuppresses ==
    /\ []StartupCaches
    /\ [][FirstCallSilent]_vars

\* the first call after a startup that cached p1 with a primary and a
\* secondary, both flags set: nothing emitted
C11_Witness ==
    /\ call.op = "reconfig" /\ call.again = "startup"
    /\ call.m4 /\ call.m6
    /\ call.row.ip4_address # NULL
    /\ call.row.ip4_address_secondary # <<>>
    /\ Primary(Post, AF_INET) = call.row.ip4_address
    /\ ops = <<>>
    /\ routes = <<>>

\* the kernel requests of the last call for one interface
IfOps(ifname) == {i \in OpsOf("addr") : ops[i].port = ifname}

\* the interface has no same-named port among the CONFIG ports startup read
MissingFromConfig(ifname) ==
    \/ ifname \notin Ports
    \/ call.db[ifname] = NoRow
    \/ ~vrf

\* C12: for every interface of the kernel dump that has no same-named port
\* in CONFIG, startup issues exactly one kernel DEL for every v4 and v6
\* address the dump recorded on it and no other kernel request, and puts no
\* PortState into the port map; every DEL delivered, the interface keeps
\* nothing but link-scope addresses.
C12_MissingPortPurged ==
    call.op = "startup" =>
        \A n \in DumpedPorts(call.kernel0) :
            MissingFromConfig(n) =>
                /\ \A family \in Families :
                      \A a \in DumpedAddrs(call.kernel0, n, family) :
                          Cardinality({i \in IfOps(n) :
                                          /\ ops[i].cmd = RTM_DELADDR
                                          /\ ops[i].family = family
                                          /\ ops[i].address = a}) = 1
                /\ \A i \in IfOps(n) :
                      /\ ops[i].cmd = RTM_DELADDR
                      /\ ops[i].address \in DumpedAddrs(call.kernel0, n, ops[i].family)
                /\ \A i \in OpsOf("cache") : ops[i].port # n
                /\ n \in Ports => ports[n] = NoPort
                /\ AllSent => KernelSet(n) = {}

\* a startup that purged eth9, which CONFIG never had, and p1, which CONFIG
\* has no longer: its IPv4 and IPv6 addresses went, its link-scope address
\* stayed
C12_Witness ==
    /\ call.op = "startup"
    /\ IfOps("eth9") # {}
    /\ call.db["p1"] = NoRow
    /\ \E i \in IfOps("p1") : ops[i].family = AF_INET
    /\ \E i \in IfOps("p1") : ops[i].family = AF_INET6
    /\ ports["p1"] = NoPort
    /\ kernel["p1"] = {KAddr(AF_INET6, LL, 64, "link")}
    /\ kernel["eth9"] = {}

\* the ports startup found both in the kernel dump and in CONFIG
SyncedPorts ==
    {p \in Ports : /\ vrf
                   /\ call.db[p] # NoRow
                   /\ p \in DumpedPorts(call.kernel0)}

\* the address a text denotes, if it denotes one
Denotes(family, text, a) ==
    /\ portd_get_prefix(family, text).ok
    /\ SameAddr(a, family, portd_get_prefix(family, text).host,
                portd_get_prefix(family, text).len)

\* the kernel requests of the last call for an address of an interface, in
\* whatever spelling
OpsAbout(ifname, family, a) ==
    {i \in IfOps(ifname) : /\ ops[i].family = family
                           /\ Denotes(family, ops[i].address, a)}

\* C13 as stated: an address that the kernel interface holds and that a text
\* of the CONFIG port denotes, in whatever spelling, gets neither a kernel
\* DEL nor a kernel ADD from startup.
C13_NoOpForHeldAddress ==
    call.op = "startup" =>
        \A p \in SyncedPorts, family \in Families :
            \A a \in {b \in call.kernel0[p] : b.family = family /\ b.scope # "link"} :
                (\E text \in RowTexts(call.db[p], family) : Denotes(family, text, a))
                    => OpsAbout(p, family, a) = {}

\* the kernel requests of the last call that carry a given text
OpsWith(ifname, family, text, cmd) ==
    {i \in IfOps(ifname) : /\ ops[i].family = family
                           /\ ops[i].address = text
                           /\ ops[i].cmd = cmd}

\* startup compares the text the dump renders for a kernel address with the
\* CONFIG texts by strcmp: a text found on both sides produces no kernel
\* request, a dump text no CONFIG text equals produces one kernel DEL, and a
\* CONFIG text no dump text equals produces a kernel ADD, also when the two
\* spell the same address
StartupDiffByText ==
    call.op = "startup" =>
        \A p \in SyncedPorts, family \in Families :
            LET dumped == DumpedAddrs(call.kernel0, p, family)
                wanted == RowTexts(call.db[p], family)
            IN  /\ \A text \in dumped \cap wanted :
                      /\ OpsWith(p, family, text, RTM_DELADDR) = {}
                      /\ OpsWith(p, family, text, RTM_NEWADDR) = {}
                /\ \A text \in dumped \ wanted :
                      /\ Cardinality(OpsWith(p, family, text, RTM_DELADDR)) = 1
                      /\ OpsWith(p, family, text, RTM_NEWADDR) = {}
                /\ \A text \in wanted \ dumped :
                      /\ OpsWith(p, family, text, RTM_NEWADDR) # {}
                      /\ OpsWith(p, family, text, RTM_DELADDR) = {}

\* the kernel holds 2001:db8::1/64 on p1 and CONFIG spells the primary
\* "2001:DB8::1/64": startup deletes the address and adds it again
C13_Witness ==
    /\ call.op = "startup"
    /\ "p1" \in SyncedPorts
    /\ call.db["p1"].ip6_address = B1alt
    /\ KAddr(AF_INET6, G1, 64, "global") \in call.kernel0["p1"]
    /\ \E i, j \in IfOps("p1") :
          /\ i < j
          /\ ops[i].cmd = RTM_DELADDR /\ ops[i].address = B1
          /\ ops[j].cmd = RTM_NEWADDR /\ ops[j].address = B1alt
    /\ KAddr(AF_INET6, G1, 64, "global") \in kernel["p1"]

\* the last call found no primary of the family stored and one in the row
Appeared(family) ==
    /\ call.op = "reconfig"
    /\ Primary(call.pre, family) = NULL
    /\ RowPrimary(call.row, family) # NULL

\* a call made while CONFIG has no VRF record: a primary that appeared is
\* stored and its kernel ADD is issued, and the route writer gives up
NoVrfAddApplied ==
    (call.op = "reconfig" /\ ~vrf) =>
        \A family \in Families :
            Appeared(family) =>
                LET new == RowPrimary(call.row, family)
                IN  /\ PrimaryLog(ops, family) =
                          << <<"store", "SET", new>>, <<"addr", RTM_NEWADDR, new>>,
                             <<"route", "ADD", new>> >>
                    /\ \A i \in AddrOps(family, FALSE) : ops[i].res = "sent"
                    /\ \A j \in RouteOps(family) : ops[j].res = "novrf"
                    /\ Primary(Post, family) = new

\* such a call leaves the route table and the dirty flag as they were
NoVrfNoRouteWrite ==
    (call'.op = "reconfig" /\ ~vrf) =>
        /\ routes' = routes
        /\ commit_txn' = commit_txn

\* C14: when CONFIG has no VRF record, a reconfigure call in which a primary
\* appears still stores it in the PortState and issues its kernel ADD, while
\* the connected-route writer returns an error: no route row and no nexthop
\* row is created and the dirty flag is not set.
C14_NoVrfAddressStillApplied ==
    /\ [](NoVrfAddApplied /\ (~vrf => (routes = <<>> /\ ~commit_txn)))
    /\ [][NoVrfNoRouteWrite]_vars

\* without a VRF record both primaries appeared: two kernel ADDs sent, two
\* route writes given up
C14_Witness ==
    /\ ~vrf
    /\ Appeared(AF_INET) /\ Appeared(AF_INET6)
    /\ \E j \in RouteOps(AF_INET) : ops[j].res = "novrf"
    /\ \E j \in RouteOps(AF_INET6) : ops[j].res = "novrf"
    /\ Cardinality(kernel["p1"]) >= 2
    /\ routes = <<>>
    /\ ~commit_txn

\* the connected-route inserts of a log that failed to parse the primary
BadPrefixAdds(log) ==
    {i \in DOMAIN log : /\ log[i].ev = "route"
                        /\ log[i].cmd = "ADD"
                        /\ log[i].res = "badprefix"}

\* the route writes of a log that went through
DoneRouteOps(log) ==
    {i \in DOMAIN log : log[i].ev = "route" /\ log[i].res = "ok"}

\* a call whose only route writes are inserts that failed to parse the
\* primary leaves the route table and the dirty flag as they were
BadPrefixSkipsRoute ==
    (/\ call'.op = "reconfig"
     /\ BadPrefixAdds(ops') # {}
     /\ DoneRouteOps(ops') = {}) =>
        /\ routes' = routes
        /\ commit_txn' = commit_txn

\* C15 as stated: when the port's primary fails to parse, the connected-route
\* insert is skipped entirely: the transaction holds no new route row and no
\* new nexthop row, and the dirty flag is unchanged.
C15_BadPrefixNoRow == [][BadPrefixSkipsRoute]_vars

\* a call added the primary "junk/24": the route table holds a row with a
\* VRF and an address family and nothing else, and the dirty flag is clear
C15_Witness ==
    /\ call.op = "reconfig" /\ vrf
    /\ call.row.ip4_address = BAD
    /\ BadPrefixAdds(ops) # {}
    /\ DoneRouteOps(ops) = {}
    /\ \E i \in DOMAIN routes :
          /\ routes[i].prefix = NULL
          /\ routes[i].vrf # NULLSTR
          /\ routes[i].address_family = "ipv4"
          /\ routes[i].nexthops = <<>>
    /\ ~commit_txn

\* what a call has to do about the primary of one family, given the PortState
\* it starts from and the row it is given, when nothing stops it
PrimarySteps(pre, row, family) ==
    LET old == Primary(pre, family)
        new == RowPrimary(row, family)
    IN  IF new # NULL /\ old # NULL /\ old # new
          THEN << <<"addr", RTM_DELADDR, old>>, <<"route", "DEL", old>>,
                  <<"store", "SET", new>>,
                  <<"addr", RTM_NEWADDR, new>>, <<"route", "ADD", new>> >>
        ELSE IF new # NULL /\ old = NULL
          THEN << <<"store", "SET", new>>, <<"addr", RTM_NEWADDR, new>>,
                  <<"route", "ADD", new>> >>
        ELSE IF new = NULL /\ old # NULL
          THEN << <<"addr", RTM_DELADDR, old>>, <<"route", "DEL", old>>,
                  <<"store", "SET", NULL>> >>
        ELSE <<>>

\* the secondary kernel requests of the last call with a given command and text
SecondaryOps(family, cmd, text) ==
    {i \in AddrOps(family, TRUE) : ops[i].cmd = cmd /\ ops[i].address = text}

\* the events of the last call that belong to one of its four blocks
Block(family, secondary) ==
    {i \in DOMAIN ops : /\ ops[i].ev \in {"addr", "route", "store", "link", "unlink"}
                        /\ ops[i].family = family
                        /\ ops[i].secondary = secondary}

\* C16: within one reconfigure call no failure of a kernel request or of a
\* route write stops anything: whatever failed, the call does every step about
\* the IPv4 primary, then every step about the IPv6 primary, then, for each
\* family whose flag is set, one kernel DEL for every node of a removed
\* secondary and one kernel ADD for every added secondary.
C16_NoAbortOnFailure ==
    call.op = "reconfig" =>
        /\ \A family \in Families :
              /\ PrimaryLog(ops, family) = PrimarySteps(call.pre, call.row, family)
              /\ Modified(family) =>
                    LET desired == Range(RowSecondary(call.row, family))
                        before  == Secondary(call.pre, family)
                    IN  /\ \A k \in BagToSet(before) \ desired :
                              Cardinality(SecondaryOps(family, RTM_DELADDR, k))
                                  = CopiesIn(k, before)
                        /\ \A k \in desired \ BagToSet(before) :
                              Cardinality(SecondaryOps(family, RTM_NEWADDR, k)) = 1
                        /\ BagToSet(Secondary(Post, family)) = desired
        /\ \A i \in Block(AF_INET, FALSE), j \in Block(AF_INET6, FALSE) : i < j
        /\ \A i \in Block(AF_INET6, FALSE), j \in Block(AF_INET, TRUE) : i < j
        /\ \A i \in Block(AF_INET, TRUE), j \in Block(AF_INET6, TRUE) : i < j

\* the send of the IPv4 primary's ADD failed; the call went on to add the
\* IPv6 primary and to write its route
C16_Witness ==
    /\ call.op = "reconfig"
    /\ \E i \in AddrOps(AF_INET, FALSE) :
          /\ ops[i].cmd = RTM_NEWADDR
          /\ ops[i].res = "sendfail"
          /\ \E j \in AddrOps(AF_INET6, FALSE) :
                j > i /\ ops[j].cmd = RTM_NEWADDR /\ ops[j].res = "sent"
    /\ \E j \in RouteOps(AF_INET6) : ops[j].res = "ok"
    /\ KernelSet("p1") = {[family |-> AF_INET6, host |-> G1, len |-> 64]}

\* the secondary keys the last call found stored and not in the row's column,
\* and in the row's column and not stored
Removed(family) ==
    BagToSet(Secondary(call.pre, family)) \ Range(RowSecondary(call.row, family))

Added(family) ==
    Range(RowSecondary(call.row, family)) \ BagToSet(Secondary(call.pre, family))

\* the last call was given a row whose primaries are the stored ones and
\* whose secondary columns differ from the stored sets in at least one
\* family, every column that differs being reported as modified
SecondaryChangeOnly ==
    /\ call.op = "reconfig"
    /\ \A family \in Families :
          /\ Primary(call.pre, family) = RowPrimary(call.row, family)
          /\ (Removed(family) \cup Added(family) # {}) => Modified(family)
    /\ \E family \in Families : Removed(family) \cup Added(family) # {}

\* a call that changes secondaries only writes no route and issues no
\* kernel request for a primary
SecondaryChangeNoRoute ==
    SecondaryChangeOnly =>
        /\ OpsOf("route") = {}
        /\ OpsOf("store") = {}
        /\ \A family \in Families : AddrOps(family, FALSE) = {}

\* C17 as stated: a call that changes secondaries only emits exactly one
\* secondary kernel DEL per removed address and one secondary kernel ADD per
\* added address, writes no route row and does not set the dirty flag.
C17_SecondaryOnlyExact ==
    SecondaryChangeOnly =>
        /\ \A family \in Families :
              /\ \A k \in Removed(family) :
                    Cardinality(SecondaryOps(family, RTM_DELADDR, k)) = 1
              /\ \A k \in Added(family) :
                    Cardinality(SecondaryOps(family, RTM_NEWADDR, k)) = 1
              /\ Cardinality(AddrOps(family, TRUE))
                    = Cardinality(Removed(family)) + Cardinality(Added(family))
        /\ SecondaryChangeNoRoute

\* startup cached a secondary the column listed twice; the call that removes
\* it issues two kernel DELs for the one address
C17_Witness ==
    /\ SecondaryChangeOnly
    /\ CopiesIn(X99, Secondary(call.pre, AF_INET)) = 2
    /\ Removed(AF_INET) = {X99}
    /\ Cardinality(SecondaryOps(AF_INET, RTM_DELADDR, X99)) = 2
    /\ OpsOf("route") = {}

\* C18: a reconfigure call runs no diff for a family whose secondary column
\* the host does not report as modified: the PortState's secondary
\* collection of that family is as it was and no secondary kernel request of
\* that family is issued, also when the row's column differs from it.
C18_GatedByColumnModified ==
    call.op = "reconfig" =>
        \A family \in Families :
            ~Modified(family) =>
                /\ Secondary(Post, family) = Secondary(call.pre, family)
                /\ Block(family, TRUE) = {}

\* the IPv4 column differs from the PortState and is not reported: nothing
\* is done about it, while the diff of the reported IPv6 column runs
C18_Witness ==
    /\ call.op = "reconfig"
    /\ ~call.m4 /\ call.m6
    /\ Removed(AF_INET) # {}
    /\ Added(AF_INET) # {}
    /\ Block(AF_INET, TRUE) = {}
    /\ Secondary(Post, AF_INET) = Secondary(call.pre, AF_INET)
    /\ AddrOps(AF_INET6, TRUE) # {}

\* the PortStates of the port map
Cached == {p \in Ports : ports[p] # NoPort}

\* C19 as stated: after any sequence of startup and reconfigure calls, the
\* primary of a PortState is never a key of that PortState's secondary
\* collection of the same family.
C19_PrimaryNotSecondary ==
    \A p \in Cached, family \in Families :
        Primary(ports[p], family) # NULL =>
            ~BagIn(Primary(ports[p], family), Secondary(ports[p], family))

\* a reconfigure call was given a row that lists 10.0.0.5/24 as the primary
\* and in the secondary column: the PortState holds it as both and the
\* kernel was asked to add it twice
C19_Witness ==
    /\ call.op = "reconfig" /\ call.m4
    /\ call.row.ip4_address = A24
    /\ A24 \in Range(call.row.ip4_address_secondary)
    /\ Primary(Post, AF_INET) = A24
    /\ BagIn(A24, Secondary(Post, AF_INET))
    /\ \E i \in AddrOps(AF_INET, FALSE), j \in AddrOps(AF_INET, TRUE) :
          /\ ops[i].cmd = RTM_NEWADDR /\ ops[i].address = A24
          /\ ops[j].cmd = RTM_NEWADDR /\ ops[j].address = A24

\* C20 as stated: after any sequence of startup and reconfigure calls, no
\* secondary collection of a PortState holds the same address string twice,
\* also when the CONFIG column lists an address twice.
C20_NoDuplicateSecondary ==
    \A p \in Cached, family \in Families :
        \A k \in BagToSet(Secondary(ports[p], family)) :
            CopiesIn(k, Secondary(ports[p], family)) = 1

\* a reconfigure call leaves no key with more nodes than it had before the
\* call, and one node for every key it linked in
DiffAddsNoDuplicate ==
    call.op = "reconfig" =>
        \A family \in Families :
            \A k \in BagToSet(Secondary(Post, family)) :
                CopiesIn(k, Secondary(Post, family))
                    = IF BagIn(k, Secondary(call.pre, family))
                        THEN CopiesIn(k, Secondary(call.pre, family))
                        ELSE 1

\* startup read a column that lists 192.0.2.99/24 twice and cached the port
\* with two nodes for it
C20_Witness ==
    /\ call.op = "startup"
    /\ "p1" \in Cached
    /\ call.db["p1"].ip4_address_secondary = <<X99, X99>>
    /\ CopiesIn(X99, Secondary(ports["p1"], AF_INET)) = 2

\* C21 as stated: every address string a PortState stores, primary or
\* secondary, parses as an address of its family: a CONFIG text that
\* portd_get_prefix rejects is never stored.
C21_StoredAddressValid ==
    \A p \in Cached, family \in Families :
        /\ Primary(ports[p], family) # NULL =>
              portd_get_prefix(family, Primary(ports[p], family)).ok
        /\ \A k \in BagToSet(Secondary(ports[p], family)) :
              portd_get_prefix(family, k).ok

\* a call was given the primary "junk/24": the request to the kernel was
\* given up, and the PortState holds the string
C21_Witness ==
    /\ call.op = "reconfig"
    /\ Primary(call.pre, AF_INET) = NULL
    /\ call.row.ip4_address = BAD
    /\ \E i \in AddrOps(AF_INET, FALSE) :
          ops[i].address = BAD /\ ops[i].res = "badprefix"
    /\ Primary(Post, AF_INET) = BAD
    /\ ~portd_get_prefix(AF_INET, Primary(Post, AF_INET)).ok


-----------------------------------------------------------------------------
(* SpecCodec: portd_get_prefix and the two mask functions on their own,    *)
(* over address texts and prefixes drawn from small menus                  *)

\* the numbers written after '/': inside both limits, on and just over each
\* limit, and past the range of the unsigned char that receives atoi's result
CodecLens == {NoLen, 0, 1, 8, 24, 31, 32, 33, 64, 127, 128, 129, 200, 255,
              256, 257, 280, 288, 289, 384, 385, 512}

FF4 == <<255, 255, 255, 255>>
FF6 == [i \in 1..16 |-> 255]
\* 172.31.170.85 and 2001:db8:aa55:...: bytes with mixed bit patterns
M4 == <<172, 31, 170, 85>>
M6 == <<32, 1, 13, 184, 170, 85, 255, 1, 128, 127, 3, 192, 240, 15, 90, 165>>

CodecHosts == {H5, G1, <<>>}

MaskHosts(family) == IF family = AF_INET THEN {H5, M4, FF4} ELSE {G1, M6, FF6}

\* one call of portd_get_prefix: what it was given and what it handed back
GetPrefix(family, ip_address) ==
    /\ call' = [op |-> "get_prefix", family |-> family, address |-> ip_address,
                ret |-> portd_get_prefix(family, ip_address)]
    /\ UNCHANGED <<ports, kernel, routes, commit_txn, vrf, phase, ops>>

\* one call of apply_mask_ipv4 / apply_mask_ipv6 on a parsed prefix
ApplyMask(family, host, prefixlen) ==
    /\ call' = [op |-> "apply_mask", family |-> family, host |-> host,
                prefixlen |-> prefixlen,
                out |-> IF family = AF_INET THEN apply_mask_ipv4(host, prefixlen)
                        ELSE apply_mask_ipv6(host, prefixlen)]
    /\ UNCHANGED <<ports, kernel, routes, commit_txn, vrf, phase, ops>>

\* the assertion of masklen2ip
MasklenInRange(masklen) == masklen >= 0 /\ masklen <= PORTD_IPV4_MAX_LEN

\* the lengths after the slash of the texts given to RouteMask: CodecLens and
\* negative ones
MaskLens == CodecLens \cup {-224, -200, -2}

\* the first step of portd_add_connected_route and portd_del_connected_route
\* on an address text: portd_get_prefix, return on failure, apply_mask_ipv4 /
\* apply_mask_ipv6 otherwise.  masklens are the arguments masklen2ip was
\* called with; a failed assertion aborts the process.
RouteMask(family, ip_address) ==
    /\ LET pf == portd_get_prefix(family, ip_address)
           masklens == IF pf.ok /\ family = AF_INET THEN <<pf.len>> ELSE <<>>
           res == IF ~pf.ok THEN "badprefix"
                  ELSE IF \E i \in DOMAIN masklens : ~MasklenInRange(masklens[i])
                    THEN "abort"
                  ELSE "ok"
       IN  call' = [op |-> "route_mask", family |-> family,
                    address |-> ip_address, ret |-> pf, masklens |-> masklens,
                    res |-> res,
                    prefix |-> IF res = "ok"
                                 THEN RoutePrefix(family, ip_address).prefix
                                 ELSE NULL]
    /\ UNCHANGED <<ports, kernel, routes, commit_txn, vrf, phase, ops>>

InitCodec == InitOver({OnIf("p1", {})}, {TRUE})

NextCodec ==
    \/ \E family \in {AF_INET, AF_INET6}, h \in CodecHosts, n \in CodecLens :
          GetPrefix(family, Text(h, n))
    \/ \E family \in {AF_INET, AF_INET6} :
          \E host \in MaskHosts(family), prefixlen \in 0..MaxLen(family) :
             ApplyMask(family, host, prefixlen)
    \/ \E family \in {AF_INET, AF_INET6}, h \in CodecHosts, n \in MaskLens :
          RouteMask(family, Text(h, n))

SpecCodec == InitCodec /\ [][NextCodec]_vars

\* C22 as stated: without "/N" the length is the family's maximum; the parse
\* fails for every N above the maximum, 256 and more included; it fails when
\* the address part is no address of the family; when it succeeds on "/N"
\* the length handed back is N.
C22_ParseBounds ==
    call.op = "get_prefix" =>
        LET N   == call.address.len
            max == MaxLen(call.family)
        IN  /\ (N = NoLen /\ call.ret.ok) => call.ret.len = max
            /\ (N # NoLen /\ N > max) => ~call.ret.ok
            /\ Len(call.address.host) # ByteLen(call.family) => ~call.ret.ok
            /\ (N # NoLen /\ call.ret.ok) => call.ret.len = N

\* the same bounds for every N that fits the unsigned char
ParseBoundsBelowWrap ==
    (call.op = "get_prefix" /\ call.address.len < UCHAR_RANGE) =>
        LET N   == call.address.len
            max == MaxLen(call.family)
        IN  /\ (N = NoLen /\ call.ret.ok) => call.ret.len = max
            /\ (N # NoLen /\ N > max) => ~call.ret.ok
            /\ Len(call.address.host) # ByteLen(call.family) => ~call.ret.ok
            /\ (N # NoLen /\ call.ret.ok) => call.ret.len = N
            /\ (Len(call.address.host) = ByteLen(call.family)
                    /\ (N = NoLen \/ N <= max)) => call.ret.ok

\* "10.0.0.5/280" parses as an IPv4 address of length 24
C22_Witness ==
    /\ call.op = "get_prefix"
    /\ call.family = AF_INET
    /\ call.address = Text(H5, 280)
    /\ call.ret.ok
    /\ call.ret.len = 24

\* bit k of an address, bit 0 the most significant bit of the first byte
AddrBit(host, k) == (host[(k \div 8) + 1] \div Pow2(7 - (k % 8))) % 2

ApplyMaskOf(family, host, prefixlen) ==
    IF family = AF_INET THEN apply_mask_ipv4(host, prefixlen)
    ELSE apply_mask_ipv6(host, prefixlen)

\* C23: the mask functions clear every bit at position prefixlen and beyond
\* and leave every bit before it; masking twice is masking once; length 0
\* gives the all-zero address and the maximum length leaves the address as
\* it was.
C23_MaskCorrect ==
    call.op = "apply_mask" =>
        LET nbits == 8 * ByteLen(call.family)
        IN  /\ DOMAIN call.out = 1..ByteLen(call.family)
            /\ \A k \in 0..(nbits - 1) :
                  AddrBit(call.out, k) =
                      IF k < call.prefixlen THEN AddrBit(call.host, k) ELSE 0
            /\ ApplyMaskOf(call.family, call.out, call.prefixlen) = call.out
            /\ call.prefixlen = 0 =>
                  call.out = [i \in 1..ByteLen(call.family) |-> 0]
            /\ call.prefixlen = MaxLen(call.family) => call.out = call.host

\* a mask that ends inside a byte whose bits on both sides of it are set
C23_Witness ==
    /\ call.op = "apply_mask"
    /\ call.family = AF_INET
    /\ call.host = M4
    /\ call.prefixlen = 20
    /\ call.out = <<172, 31, 160, 0>>


-----------------------------------------------------------------------------
(* SpecRoutes: portd_del_connected_route on its own, over route tables that *)
(* hold rows of other daemons, other ports and earlier versions            *)

\* 10.0.0.0/24 and 2001:db8::/64: the connected prefixes of A24 and B1
N4 == Text(<<10, 0, 0, 0>>, 24)
N6 == Text(<<32, 1, 13, 184, 0, 0, 0, 0, 0, 0, 0, 0, 0, 0, 0, 0>>, 64)

RouteRow(af, prefix, from, sub, port_name) ==
    [BlankRoute EXCEPT !.vrf = "vrf_default", !.address_family = af,
                       !.prefix = prefix, !.from = from,
                       !.sub_address_family = sub,
                       !.distance = <<CONNECTED_ROUTE_DISTANCE>>,
                       !.selected = <<TRUE>>,
                       !.nexthops = <<[ports |-> <<port_name>>]>>]

RouteRows ==
    {RouteRow(af, prefix, from, sub, port_name) :
        af \in {NULLSTR, "ipv4", "ipv6"}, prefix \in {N4, N6, A24},
        from \in {"connected", "static"},
        sub \in {NULLSTR, "unicast", "multicast"}, port_name \in Ports}

\* rows that can stand next to each other in one table
PairRows ==
    {RouteRow(af, prefix, "connected", "unicast", port_name) :
        af \in {NULLSTR, "ipv4", "ipv6"}, prefix \in {N4, N6},
        port_name \in Ports}

RouteTables ==
    {<<>>} \cup {<<r>> : r \in RouteRows}
        \cup {<<r1, r2>> : r1 \in PairRows, r2 \in PairRows}

\* one call of portd_del_connected_route(address, port_name, is_v4)
DelRoute(address, port_name, family) ==
    /\ LET s0 == [port |-> NoPort, kernel |-> kernel, routes |-> routes,
                  commit_txn |-> commit_txn, ops |-> <<>>, nsend |-> 0]
       IN  \E s1 \in {portd_del_connected_route(s0, address, port_name, family)} :
              /\ routes' = s1.routes
              /\ commit_txn' = s1.commit_txn
              /\ ops' = s1.ops
              /\ call' = [op |-> "del_route", address |-> address,
                          port |-> port_name, family |-> family,
                          routes0 |-> routes, commit0 |-> commit_txn]
    /\ UNCHANGED <<ports, kernel, vrf, phase>>

InitRoutes ==
    /\ ports = [p \in Ports |-> NoPort]
    /\ kernel = OnIf("p1", {})
    /\ routes \in RouteTables
    /\ commit_txn = FALSE
    /\ vrf = TRUE
    /\ phase = "main"
    /\ call = NoCall
    /\ ops = <<>>

NextRoutes ==
    \E address \in {A24, A6, B1, BAD}, port_name \in Ports,
       family \in {AF_INET, AF_INET6} :
        DelRoute(address, port_name, family)

SpecRoutes == InitRoutes /\ [][NextRoutes]_vars

\* the match rule as the claim states it, for the call just made
RuleMatches(row) ==
    LET pf == portd_get_prefix(call.family, call.address)
    IN  /\ pf.ok
        /\ IF call.family = AF_INET
             THEN row.address_family \in {NULLSTR, "ipv4"}
             ELSE row.address_family = "ipv6"
        /\ row.prefix = Text(ApplyMaskOf(call.family, pf.host, pf.len), pf.len)
        /\ row.from = "connected"
        /\ row.sub_address_family \in {NULLSTR, "unicast"}
        /\ row.nexthops[1].ports[1] = call.port

\* C25: portd_del_connected_route deletes a row exactly when a row of the
\* table matches the rule (family, a NULL family standing for IPv4 only;
\* canonical masked prefix; source connected; sub-family NULL or unicast;
\* first nexthop's first port); the row it deletes, nexthop included, is a
\* matching one, every other row stays, and the dirty flag is set.  When no
\* row matches it reports failure and leaves table and dirty flag alone.
C25_DeleteMatchRule ==
    call.op = "del_route" =>
        LET hits == {i \in DOMAIN call.routes0 : RuleMatches(call.routes0[i])}
        IN  /\ hits # {} =>
                  /\ \E i \in hits : routes = RemoveAt(call.routes0, i)
                  /\ commit_txn
                  /\ ops[Len(ops)].res = "ok"
            /\ hits = {} =>
                  /\ routes = call.routes0
                  /\ commit_txn = call.commit0
                  /\ ops[Len(ops)].res \in {"notfound", "badprefix"}

\* a legacy row without address family is deleted for an IPv4 address
C25_Witness ==
    /\ call.op = "del_route"
    /\ call.family = AF_INET
    /\ call.address = A24
    /\ call.port = "p1"
    /\ call.routes0 = <<RouteRow(NULLSTR, N4, "connected", NULLSTR, "p1")>>
    /\ routes = <<>>
    /\ commit_txn


-----------------------------------------------------------------------------
(* SpecDel: ports are configured and then removed from the CONFIG          *)

\* the body portd_del_ipv4_addr and portd_del_ipv6_addr share
DelFamily(s, env, port, family) ==
    IF port = NoPort THEN s
    ELSE LET s1 == IF Primary(port, family) # NULL
                     THEN portd_set_ipaddr(s, env, RTM_DELADDR, port.name,
                                           Primary(port, family), family, FALSE)
                     ELSE s
         IN  SetEach(s1, env, RTM_DELADDR, port.name, family, TRUE,
                     HmapNodes(Secondary(port, family)))

portd_del_ipv4_addr(s, env, port) == DelFamily(s, env, port, AF_INET)

portd_del_ipv6_addr(s, env, port) == DelFamily(s, env, port, AF_INET6)

portd_del_ipaddr(s, env, port) ==
    portd_del_ipv6_addr(portd_del_ipv4_addr(s, env, port), env, port)

\* the port's row left the CONFIG: the host calls portd_del_ipaddr on its
\* PortState and then takes the PortState out of the VRF port map
DelPort(p, env) ==
    /\ phase = "main"
    /\ call.op = "none"
    /\ ports[p] # NoPort
    /\ LET s0 == [port |-> ports[p], kernel |-> kernel, routes |-> routes,
                  commit_txn |-> commit_txn, ops |-> <<>>, nsend |-> 0]
       IN  \E s1 \in {portd_del_ipaddr(s0, env, ports[p])} :
              /\ kernel' = s1.kernel
              /\ routes' = s1.routes
              /\ commit_txn' = s1.commit_txn
              /\ ops' = s1.ops
    /\ ports' = [ports EXCEPT ![p] = NoPort]
    /\ call' = [NoCall EXCEPT !.op = "del_port", !.port = p, !.pre = ports[p],
                              !.kernel0 = kernel]
    /\ UNCHANGED <<vrf, phase>>

DelRows == RowsOver("p1", {A24}, {B1}, {X99, A6}, {B2})

InitDel == InitOver({OnIf("p1", {})}, {TRUE})

NextDel ==
    \/ \E env \in NoFailure : Startup([p \in Ports |-> NoRow], env)
    \/ /\ call.op = "none"
       /\ \E row \in DelRows, m4 \in BOOLEAN, m6 \in BOOLEAN, env \in NoFailure :
             Reconfigure("p1", row, m4, m6, env)
    \/ \E env \in NoFailure : DelPort("p1", env)
    \/ PassEnd

SpecDel == InitDel /\ [][NextDel]_vars

\* the kernel DEL requests of the last call for one text
DelOps(family, secondary, text) ==
    {i \in AddrOps(family, secondary) :
        ops[i].cmd = RTM_DELADDR /\ ops[i].address = text}

\* portd_del_ipaddr asks the kernel to delete the primary and every node of
\* the secondary collection, for both families, and nothing else
DelIssuesKernelDels ==
    call.op = "del_port" =>
        /\ \A family \in Families :
              /\ Primary(call.pre, family) # NULL =>
                    Cardinality(DelOps(family, FALSE, Primary(call.pre, family))) = 1
              /\ \A k \in BagToSet(Secondary(call.pre, family)) :
                    Cardinality(DelOps(family, TRUE, k)) =
                        CopiesIn(k, Secondary(call.pre, family))
        /\ \A i \in DOMAIN ops :
              /\ ops[i].ev = "addr" /\ ops[i].cmd = RTM_DELADDR
              /\ ops[i].port = call.port
              /\ IF ops[i].secondary
                   THEN BagIn(ops[i].address, Secondary(call.pre, ops[i].family))
                   ELSE ops[i].address = Primary(call.pre, ops[i].family)

\* C24 as stated: portd_del_ipaddr issues a kernel DEL for the primary and
\* every secondary address of both families, and when it is done the route
\* table holds no connected route of the port.
C24_DelRemovesAddressesAndRoutes ==
    call.op = "del_port" =>
        /\ \A family \in Families :
              /\ Primary(call.pre, family) # NULL =>
                    DelOps(family, FALSE, Primary(call.pre, family)) # {}
              /\ \A k \in BagToSet(Secondary(call.pre, family)) :
                    DelOps(family, TRUE, k) # {}
        /\ \A family \in Families : ConnectedRows(call.port, family) = {}

\* a port with a primary, a secondary and a connected route is removed: both
\* addresses get their DEL and leave the kernel, the route row stays
C24_Witness ==
    /\ call.op = "del_port"
    /\ call.port = "p1"
    /\ Primary(call.pre, AF_INET) = A24
    /\ BagIn(X99, Secondary(call.pre, AF_INET))
    /\ DelOps(AF_INET, FALSE, A24) # {}
    /\ DelOps(AF_INET, TRUE, X99) # {}
    /\ kernel["p1"] = {}
    /\ ports["p1"] = NoPort
    /\ RowsFor("p1", AF_INET, A24) # {}


-----------------------------------------------------------------------------
(* Netlink request building                                                 *)

\* <linux/netlink.h>, <linux/rtnetlink.h>: alignment and header sizes
NLMSG_ALIGNTO == 4
NLMSG_HDRLEN == 16
RTA_ALIGNTO == 4
RTA_HDRLEN == 4
\* sizeof (struct ifaddrmsg), sizeof (struct ifinfomsg), char buf[128]
SIZEOF_IFADDRMSG == 8
SIZEOF_IFINFOMSG == 16
REQ_BUF_LEN == 128
PORTD_EMPTY_STRING == ""

AlignUp(len, to) == ((len + to - 1) \div to) * to

NLMSG_ALIGN(len) == AlignUp(len, NLMSG_ALIGNTO)

NLMSG_LENGTH(len) == len + NLMSG_HDRLEN

NLMSG_SPACE(len) == NLMSG_ALIGN(NLMSG_LENGTH(len))

RTA_ALIGN(len) == AlignUp(len, RTA_ALIGNTO)

RTA_LENGTH(len) == RTA_ALIGN(RTA_HDRLEN) + len

\* NLMSG_TAIL as an offset from the start of the request
NLMSG_TAIL(n) == NLMSG_ALIGN(n.nlmsg_len)

\* if_nametoindex: 0 for a name the kernel does not know
if_nametoindex(env, name) ==
    IF name \in env.noif THEN 0
    ELSE CASE name = LOOPBACK_INTERFACE_NAME -> 1
           [] name = "p1" -> 2
           [] name = "p2" -> 3
           [] OTHER -> 4

\* one struct rtattr in the request buffer, at offset off
Attr(off, rta_type, rta_len, payload) ==
    [off |-> off, rta_type |-> rta_type, rta_len |-> rta_len, payload |-> payload]

\* the request of portd_set_ipaddr up to its send(): [res, n]
SetIpaddrRequest_noflag(env, cmd, port_name, ip_address, family, secondary) ==
    LET pf      == portd_get_prefix(family, ip_address)
        bytelen == IF family = AF_INET THEN 4 ELSE 16
        index   == if_nametoindex(env, port_name)
        n0      == [nlmsg_len |-> NLMSG_LENGTH(SIZEOF_IFADDRMSG),
                    nlmsg_flags |-> {"NLM_F_REQUEST"}, nlmsg_type |-> cmd,
                    ifa_family |-> family, ifa_index |-> index,
                    ifa_prefixlen |-> pf.len, ifa_flags |-> {}, attrs |-> <<>>]
        buflen  == RTA_LENGTH(bytelen)
        maxlen  == NLMSG_HDRLEN + SIZEOF_IFADDRMSG + REQ_BUF_LEN
    IN  IF index = 0 THEN [res |-> "noif", n |-> n0]
        ELSE IF ~pf.ok THEN [res |-> "badprefix", n |-> n0]
        ELSE IF NLMSG_ALIGN(n0.nlmsg_len) + RTA_ALIGN(buflen) > maxlen
          THEN [res |-> "overflow", n |-> n0]
        ELSE [res |-> "built",
              n |-> [n0 EXCEPT
                       !.attrs = <<Attr(NLMSG_TAIL(n0), "IFA_LOCAL", buflen, pf.host)>>,
                       !.nlmsg_len = NLMSG_ALIGN(@) + RTA_ALIGN(buflen)]]

SetIpaddrRequest(env, cmd, port_name, ip_address, family, secondary) ==
    LET pf      == portd_get_prefix(family, ip_address)
        bytelen == IF family = AF_INET THEN 4 ELSE 16
        index   == if_nametoindex(env, port_name)
        n0      == [nlmsg_len |-> NLMSG_LENGTH(SIZEOF_IFADDRMSG),
                    nlmsg_flags |-> {"NLM_F_REQUEST"}, nlmsg_type |-> cmd,
                    ifa_family |-> family, ifa_index |-> index,
                    ifa_prefixlen |-> pf.len,
                    ifa_flags |-> IF secondary THEN {"IFA_F_SECONDARY"} ELSE {},
                    attrs |-> <<>>]
        buflen  == RTA_LENGTH(bytelen)
        maxlen  == NLMSG_HDRLEN + SIZEOF_IFADDRMSG + REQ_BUF_LEN
    IN  IF index = 0 THEN [res |-> "noif", n |-> n0]
        ELSE IF ~pf.ok THEN [res |-> "badprefix", n |-> n0]
        ELSE IF NLMSG_ALIGN(n0.nlmsg_len) + RTA_ALIGN(buflen) > maxlen
          THEN [res |-> "overflow", n |-> n0]
        ELSE [res |-> "built",
              n |-> [n0 EXCEPT
                       !.attrs = <<Attr(NLMSG_TAIL(n0), "IFA_LOCAL", buflen, pf.host)>>,
                       !.nlmsg_len = NLMSG_ALIGN(@) + RTA_ALIGN(buflen)]]

\* one send() on nl_ip_sock: the request handed over and whether it went out
Send(env, n, k) == [n |-> n, ok |-> k \notin env.sendfail]

\* add_link_attr: [ret, n]
add_link_attr(n, nlmsg_maxlen, attr_type, payload, payload_len) ==
    LET len == RTA_LENGTH(payload_len)
    IN  IF NLMSG_ALIGN(n.nlmsg_len) + RTA_ALIGN(len) > nlmsg_maxlen
          THEN [ret |-> -1, n |-> n]
        ELSE [ret |-> 0,
              n |-> [n EXCEPT
                       !.attrs = Append(@, Attr(NLMSG_TAIL(n), attr_type, len, payload)),
                       !.nlmsg_len = NLMSG_ALIGN(@) + RTA_ALIGN(len)]]

\* SetRtaLen that leaves the length add_link_attr wrote
SetRtaLen_unpatched(n, off, len) == n

\* rta->rta_len = len for the attribute header at offset off
SetRtaLen(n, off, len) ==
    [n EXCEPT !.attrs = [i \in DOMAIN @ |->
                            IF @[i].off = off THEN [@[i] EXCEPT !.rta_len = len]
                            ELSE @[i]]]

\* the request header the three link functions start from
LinkRequest(nlmsg_type, nlmsg_flags, ifi_index) ==
    [nlmsg_len |-> NLMSG_SPACE(SIZEOF_IFINFOMSG), nlmsg_type |-> nlmsg_type,
     nlmsg_flags |-> nlmsg_flags, ifi_family |-> "AF_UNSPEC",
     ifi_index |-> ifi_index, ifi_change |-> {}, ifi_flags |-> {}, attrs |-> <<>>]

\* portd_add_vlan_interface: the send() calls it makes and what the six
\* add_link_attr calls returned
portd_add_vlan_interface(env, interface_name, vlan_interface_name, vlan_tag) ==
    LET maxlen   == NLMSG_HDRLEN + SIZEOF_IFINFOMSG + REQ_BUF_LEN
        ifindex  == if_nametoindex(env, interface_name)
        n0       == LinkRequest("RTM_NEWLINK", {"NLM_F_REQUEST", "NLM_F_CREATE"}, 0)
        linkinfo == NLMSG_TAIL(n0)
        a1       == add_link_attr(n0, maxlen, "IFLA_LINKINFO", <<>>, 0)
        a2       == add_link_attr(a1.n, maxlen, "IFLA_INFO_KIND", "vlan", 4)
        data     == NLMSG_TAIL(a2.n)
        a3       == add_link_attr(a2.n, maxlen, "IFLA_INFO_DATA", <<>>, 0)
        a4       == add_link_attr(a3.n, maxlen, "IFLA_VLAN_ID", vlan_tag, 2)
        n5       == SetRtaLen(a4.n, data, NLMSG_TAIL(a4.n) - data)
        n6       == SetRtaLen(n5, linkinfo, NLMSG_TAIL(n5) - linkinfo)
        a7       == add_link_attr(n6, maxlen, "IFLA_LINK", ifindex, 4)
        a8       == add_link_attr(a7.n, maxlen, "IFLA_IFNAME", vlan_interface_name,
                                  Len(vlan_interface_name) + 1)
    IN  IF ifindex = 0 THEN [sent |-> <<>>, rets |-> <<>>]
        ELSE [sent |-> <<Send(env, a8.n, 1)>>,
              rets |-> <<a1.ret, a2.ret, a3.ret, a4.ret, a7.ret, a8.ret>>]

\* portd_del_vlan_interface
portd_del_vlan_interface(env, vlan_interface_name) ==
    LET n0 == LinkRequest("RTM_DELLINK", {"NLM_F_REQUEST"},
                          if_nametoindex(env, vlan_interface_name))
    IN  IF n0.ifi_index = 0 THEN [sent |-> <<>>]
        ELSE [sent |-> <<Send(env, n0, 1)>>]

\* portd_interface_up_down
portd_interface_up_down(env, interface_name, status) ==
    LET n0 == LinkRequest("RTM_NEWLINK", {"NLM_F_REQUEST"},
                          if_nametoindex(env, interface_name))
        n1 == IF status = "up"
                THEN [n0 EXCEPT !.ifi_change = @ \cup {"IFF_UP"},
                                !.ifi_flags = @ \cup {"IFF_UP"}]
              ELSE IF status = "down"
                THEN [n0 EXCEPT !.ifi_change = @ \cup {"IFF_UP"},
                                !.ifi_flags = @ \ {"IFF_UP"}]
              ELSE n0
    IN  IF status = NULLSTR \/ status = PORTD_EMPTY_STRING THEN [sent |-> <<>>]
        ELSE IF interface_name = NULLSTR \/ interface_name = PORTD_EMPTY_STRING
          THEN [sent |-> <<>>]
        ELSE IF n0.ifi_index = 0 THEN [sent |-> <<>>]
        ELSE [sent |-> <<Send(env, n1, 1)>>]


-----------------------------------------------------------------------------
(* SpecSock: the request functions of the kernel channel, one call at a    *)
(* time, with interface lookups and sends that may fail                    *)

\* a C string of k characters
NameOfLen(k) == [i \in 1..k |-> "v"]

\* lengths of VLAN interface names: usual ones, the longest the request
\* buffer takes and longer ones
VlanNameLens == {1, 2, 3, 4, 6, 7, 8, 15, 90, 91, 92, 93, 120}

VlanTags == {1, 100, 4094}

SockEnvs(name) ==
    {[noif |-> ni, sendfail |-> sf, vrf |-> TRUE] : ni \in {{}, {name}}, sf \in {{}, {1}}}

\* one call of portd_set_ipaddr
SetAddress(cmd, port_name, ip_address, family, secondary, env) ==
    /\ LET s0 == [port |-> NoPort, kernel |-> kernel, routes |-> routes,
                  commit_txn |-> commit_txn, ops |-> <<>>, nsend |-> 0]
           rq == SetIpaddrRequest(env, cmd, port_name, ip_address, family, secondary)
       IN  \E s1 \in {portd_set_ipaddr(s0, env, cmd, port_name, ip_address, family,
                                       secondary)} :
              /\ kernel' = s1.kernel
              /\ ops' = s1.ops
              /\ call' = [op |-> "set_ipaddr", cmd |-> cmd, port |-> port_name,
                          address |-> ip_address, family |-> family,
                          secondary |-> secondary, env |-> env,
                          sent |-> IF rq.res = "built" THEN <<Send(env, rq.n, 1)>>
                                   ELSE <<>>]
    /\ UNCHANGED <<ports, routes, commit_txn, vrf, phase>>

\* one call of portd_interface_up_down
InterfaceUpDown(interface_name, status, env) ==
    /\ call' = [op |-> "up_down", port |-> interface_name, status |-> status,
                env |-> env,
                sent |-> portd_interface_up_down(env, interface_name, status).sent]
    /\ ops' = <<>>
    /\ UNCHANGED <<ports, kernel, routes, commit_txn, vrf, phase>>

\* one call of portd_add_vlan_interface
AddVlanInterface(interface_name, vlan_interface_name, vlan_tag, env) ==
    /\ \E r \in {portd_add_vlan_interface(env, interface_name, vlan_interface_name,
                                          vlan_tag)} :
          call' = [op |-> "add_vlan", port |-> interface_name,
                   name |-> vlan_interface_name, vlan_tag |-> vlan_tag,
                   env |-> env, sent |-> r.sent, rets |-> r.rets]
    /\ ops' = <<>>
    /\ UNCHANGED <<ports, kernel, routes, commit_txn, vrf, phase>>

\* one call of portd_del_vlan_interface
DelVlanInterface(vlan_interface_name, env) ==
    /\ call' = [op |-> "del_vlan", port |-> vlan_interface_name, env |-> env,
                sent |-> portd_del_vlan_interface(env, vlan_interface_name).sent]
    /\ ops' = <<>>
    /\ UNCHANGED <<ports, kernel, routes, commit_txn, vrf, phase>>

InitSock ==
    /\ ports = [p \in Ports |-> NoPort]
    /\ kernel \in {OnIf("p1", {}), OnIf("p1", {KAddr(AF_INET, H5, 24, "global")})}
    /\ routes = <<>>
    /\ commit_txn = FALSE
    /\ vrf = TRUE
    /\ phase = "main"
    /\ call = NoCall
    /\ ops = <<>>

NextSock ==
    \/ /\ call.op = "none"
       /\ \E cmd \in {RTM_NEWADDR, RTM_DELADDR}, family \in {AF_INET, AF_INET6},
             ip_address \in {A24, X99, B1, BAD, Text(H5, 33)},
             secondary \in BOOLEAN, env \in SockEnvs("p1") :
             SetAddress(cmd, "p1", ip_address, family, secondary, env)
    \/ /\ call.op = "none"
       /\ \E interface_name \in {"p1", NULLSTR, PORTD_EMPTY_STRING},
             status \in {"up", "down", "UP", "foo", NULLSTR, PORTD_EMPTY_STRING},
             env \in SockEnvs("p1") :
             InterfaceUpDown(interface_name, status, env)
    \/ /\ call.op = "none"
       /\ \E k \in VlanNameLens, vlan_tag \in VlanTags, env \in SockEnvs("eth9") :
             AddVlanInterface("eth9", NameOfLen(k), vlan_tag, env)
    \/ /\ call.op = "none"
       /\ \E env \in SockEnvs("p2") : DelVlanInterface("p2", env)
    \/ PassEnd

SpecSock == InitSock /\ [][NextSock]_vars

\* C26: portd_set_ipaddr calls send() not at all when if_nametoindex gives 0
\* or the address text does not parse (the attribute of 4 or 16 bytes never
\* overflows the 128-byte buffer), and exactly once otherwise, with a request
\* whose ifa_flags hold IFA_F_SECONDARY exactly when secondary is true.
C26_SetAddressSends ==
    call.op = "set_ipaddr" =>
        LET failed == \/ call.port \in call.env.noif
                      \/ ~portd_get_prefix(call.family, call.address).ok
        IN  /\ failed => call.sent = <<>>
            /\ ~failed =>
                  /\ Len(call.sent) = 1
                  /\ ("IFA_F_SECONDARY" \in call.sent[1].n.ifa_flags) <=> call.secondary
                  /\ call.sent[1].n.nlmsg_type = call.cmd
                  /\ Len(call.sent[1].n.attrs) = 1
            /\ (call.sent = <<>>) <=> (ops[1].res \in {"noif", "badprefix"})

C26_Witness ==
    /\ call.op = "set_ipaddr"
    /\ call.secondary
    /\ call.address = X99
    /\ call.family = AF_INET
    /\ Len(call.sent) = 1
    /\ call.sent[1].n.ifa_flags = {"IFA_F_SECONDARY"}
    /\ call.sent[1].n.nlmsg_len = 32

\* C27 as stated: a status other than "up" and "down" makes
\* portd_interface_up_down return without a send(); "up" and "down" send a
\* RTM_NEWLINK request with IFF_UP in ifi_change and IFF_UP set, or cleared,
\* in ifi_flags.
C27_UnknownStatusRejected ==
    call.op = "up_down" =>
        /\ call.status \notin {"up", "down"} => call.sent = <<>>
        /\ \A i \in DOMAIN call.sent :
              /\ call.sent[i].n.nlmsg_type = "RTM_NEWLINK"
              /\ "IFF_UP" \in call.sent[i].n.ifi_change
              /\ ("IFF_UP" \in call.sent[i].n.ifi_flags) <=> call.status = "up"

\* "up" and "down" on a known interface do what the claim says
UpDownSends ==
    (call.op = "up_down" /\ call.status \in {"up", "down"}
        /\ call.port = "p1" /\ call.env.noif = {}) =>
        /\ Len(call.sent) = 1
        /\ call.sent[1].n.nlmsg_type = "RTM_NEWLINK"
        /\ call.sent[1].n.ifi_change = {"IFF_UP"}
        /\ ("IFF_UP" \in call.sent[1].n.ifi_flags) <=> call.status = "up"

\* status "UP": a RTM_NEWLINK request with an empty change mask goes out
C27_Witness ==
    /\ call.op = "up_down"
    /\ call.status = "UP"
    /\ call.port = "p1"
    /\ Len(call.sent) = 1
    /\ call.sent[1].ok
    /\ call.sent[1].n.nlmsg_type = "RTM_NEWLINK"
    /\ call.sent[1].n.ifi_change = {}

\* the attribute types of the six add_link_attr calls, in call order
VlanAttrTypes ==
    <<"IFLA_LINKINFO", "IFLA_INFO_KIND", "IFLA_INFO_DATA", "IFLA_VLAN_ID",
      "IFLA_LINK", "IFLA_IFNAME">>

\* the attribute types add_link_attr refused in the last call
Refused == {VlanAttrTypes[i] : i \in {j \in DOMAIN call.rets : call.rets[j] = -1}}

AttrTypes(n) == {n.attrs[i].rta_type : i \in DOMAIN n.attrs}

\* C28 as stated: when add_link_attr finds that an attribute does not fit
\* the request buffer, the attribute is not written and
\* portd_add_vlan_interface makes no send().
C28_OverflowNotSent ==
    (call.op = "add_vlan" /\ Refused # {}) =>
        /\ \A i \in DOMAIN call.sent : AttrTypes(call.sent[i].n) \cap Refused = {}
        /\ call.sent = <<>>

\* a refused attribute is not in the request and the request stays inside
\* the buffer
OverflowNotWritten ==
    call.op = "add_vlan" =>
        \A i \in DOMAIN call.sent :
            /\ AttrTypes(call.sent[i].n) \cap Refused = {}
            /\ call.sent[i].n.nlmsg_len <= NLMSG_HDRLEN + SIZEOF_IFINFOMSG + REQ_BUF_LEN
            /\ \A j \in DOMAIN call.sent[i].n.attrs :
                  call.sent[i].n.attrs[j].off + RTA_ALIGN(call.sent[i].n.attrs[j].rta_len)
                      <= call.sent[i].n.nlmsg_len

\* a name of 92 characters: IFLA_IFNAME is refused and the request goes out
\* without it
C28_Witness ==
    /\ call.op = "add_vlan"
    /\ Len(call.name) = 92
    /\ call.rets = <<0, 0, 0, 0, 0, -1>>
    /\ Len(call.sent) = 1
    /\ call.sent[1].ok
    /\ "IFLA_IFNAME" \notin AttrTypes(call.sent[1].n)
    /\ "IFLA_LINK" \in AttrTypes(call.sent[1].n)

\* the attribute of a type in a request (each type occurs at most once)
AttrOf(n, rta_type) ==
    n.attrs[CHOOSE i \in DOMAIN n.attrs : n.attrs[i].rta_type = rta_type]

\* the bytes [off, off + rta_len) an attribute claims
Inside(a, b) == b.off <= a.off /\ a.off + a.rta_len <= b.off + b.rta_len

\* C29: in every request portd_add_vlan_interface sends, IFLA_LINKINFO's
\* length is its header plus the aligned IFLA_INFO_KIND "vlan" plus the whole
\* IFLA_INFO_DATA, IFLA_INFO_DATA's length is its header plus the aligned
\* IFLA_VLAN_ID, IFLA_LINK and IFLA_IFNAME start after the end of both, and
\* nlmsg_len is the aligned header plus the aligned lengths of the top-level
\* attributes.
C29_VlanLayout ==
    call.op = "add_vlan" =>
        \A i \in DOMAIN call.sent :
            LET n        == call.sent[i].n
                linkinfo == AttrOf(n, "IFLA_LINKINFO")
                kind     == AttrOf(n, "IFLA_INFO_KIND")
                data     == AttrOf(n, "IFLA_INFO_DATA")
                vlanid   == AttrOf(n, "IFLA_VLAN_ID")
                link     == AttrOf(n, "IFLA_LINK")
                outer    == {j \in DOMAIN n.attrs :
                                n.attrs[j].rta_type \in {"IFLA_LINK", "IFLA_IFNAME"}}
                RECURSIVE Sum(_)
                Sum(S) == IF S = {} THEN 0
                          ELSE LET j == CHOOSE k \in S : TRUE
                               IN  RTA_ALIGN(n.attrs[j].rta_len) + Sum(S \ {j})
            IN  /\ {"IFLA_LINKINFO", "IFLA_INFO_KIND", "IFLA_INFO_DATA",
                    "IFLA_VLAN_ID", "IFLA_LINK"} \subseteq AttrTypes(n)
                /\ kind.payload = "vlan" /\ kind.rta_len = RTA_HDRLEN + 4
                /\ vlanid.payload = call.vlan_tag /\ vlanid.rta_len = RTA_HDRLEN + 2
                /\ kind.off = linkinfo.off + RTA_HDRLEN
                /\ data.off = kind.off + RTA_ALIGN(kind.rta_len)
                /\ vlanid.off = data.off + RTA_HDRLEN
                /\ data.rta_len = RTA_HDRLEN + RTA_ALIGN(vlanid.rta_len)
                /\ linkinfo.rta_len =
                       RTA_HDRLEN + RTA_ALIGN(kind.rta_len) + data.rta_len
                /\ \A j \in outer :
                       /\ n.attrs[j].off >= linkinfo.off + linkinfo.rta_len
                       /\ n.attrs[j].off >= data.off + data.rta_len
                /\ n.nlmsg_len = NLMSG_SPACE(SIZEOF_IFINFOMSG)
                                    + RTA_ALIGN(linkinfo.rta_len) + Sum(outer)
                /\ n.nlmsg_len % NLMSG_ALIGNTO = 0

\* "vlan100" on eth9 with tag 100: a request of 76 bytes
C29_Witness ==
    /\ call.op = "add_vlan"
    /\ Len(call.name) = 7
    /\ call.vlan_tag = 100
    /\ Len(call.sent) = 1
    /\ AttrOf(call.sent[1].n, "IFLA_LINKINFO").rta_len = 24
    /\ AttrOf(call.sent[1].n, "IFLA_INFO_DATA").rta_len = 12
    /\ AttrOf(call.sent[1].n, "IFLA_IFNAME").rta_len = 12
    /\ call.sent[1].n.nlmsg_len = 76


-----------------------------------------------------------------------------
(* SpecDump: the address dump of portd_populate_kernel_ip_addr, one         *)
(* recvmsg at a time, against the reply datagrams the kernel queues         *)

\* most datagrams in one reply, most netlink messages in one datagram
MaxDatagrams == 2
MaxMsgs == 2

NlMsg(nlmsg_type, multi, ifname, addr) ==
    [nlmsg_type |-> nlmsg_type, multi |-> multi, ifname |-> ifname, addr |-> addr]

\* the messages a reply is made of: an address with and without NLM_F_MULTI,
\* an address of the loopback, the end marker, an error
DumpMsgs ==
    {NlMsg("RTM_NEWADDR", TRUE, "p1", KAddr(AF_INET, H5, 24, "global")),
     NlMsg("RTM_NEWADDR", FALSE, "p1", KAddr(AF_INET, H5, 24, "global")),
     NlMsg("RTM_NEWADDR", TRUE, LOOPBACK_INTERFACE_NAME, KAddr(AF_INET, H127, 8, "host")),
     NlMsg("NLMSG_DONE", TRUE, NULLSTR, NULL),
     NlMsg("NLMSG_ERROR", FALSE, NULLSTR, NULL)}

\* the datagrams of a multi-part reply: every message carries NLM_F_MULTI
MultiDatagrams ==
    UNION {[1..k -> {m \in DumpMsgs : m.multi}] : k \in 1..MaxMsgs}

\* the replies the kernel may give: a multi-part reply of some datagrams, or
\* one datagram of one message
Replies ==
    UNION {[1..k -> MultiDatagrams] : k \in 1..MaxDatagrams}
        \cup {<<<<m>>>> : m \in DumpMsgs}

\* find_or_create_kernel_port that never finds the port it is asked for
find_or_create_kernel_port_fresh(kernel_port_list, ifname) ==
    [name |-> ifname, ip4addr |-> EmptyBag, ip6addr |-> EmptyBag]

\* find_or_create_kernel_port: the kernel_port of the list, or a new one
\* with two empty hmaps
find_or_create_kernel_port(kernel_port_list, ifname) ==
    IF ifname \in DOMAIN kernel_port_list THEN kernel_port_list[ifname]
    ELSE [name |-> ifname, ip4addr |-> EmptyBag, ip6addr |-> EmptyBag]

\* the body of parse_nl_msg's while loop for one message.  RTM_NEWADDR
\* carries one IFA_ADDRESS attribute; a message of another type has no
\* attribute to offer.  The kernel_port found or created gets the address
\* hmap_insert-ed and is put into the list under its name (shash_add_once)
ParseMsg(kernel_port_list, m) ==
    IF m.nlmsg_type # "RTM_NEWADDR" THEN kernel_port_list
    ELSE IF m.ifname = LOOPBACK_INTERFACE_NAME THEN kernel_port_list
    ELSE IF m.addr.family = AF_INET6 /\ m.addr.scope = "link" THEN kernel_port_list
    ELSE LET port  == find_or_create_kernel_port(kernel_port_list, m.ifname)
             text  == Canonical(m.addr.host, m.addr.len)
             port1 == IF m.addr.family = AF_INET
                        THEN [port EXCEPT !.ip4addr = HmapInsert(@, text)]
                        ELSE [port EXCEPT !.ip6addr = HmapInsert(@, text)]
         IN  [n \in DOMAIN kernel_port_list \cup {m.ifname} |->
                 IF n = m.ifname THEN port1 ELSE kernel_port_list[n]]

\* parse_nl_msg over one datagram: it walks every message of the datagram
RECURSIVE parse_nl_msg(_, _)
parse_nl_msg(datagram, kernel_port_list) ==
    IF datagram = <<>> THEN kernel_port_list
    ELSE parse_nl_msg(Tail(datagram), ParseMsg(kernel_port_list, Head(datagram)))

\* one turn of the while loop of parse_ip_addr_dump on the datagram recvmsg
\* handed over
DumpTurn(c, datagram) ==
    LET nlh == datagram[1]
        multipart_msg_end == nlh.nlmsg_type = "NLMSG_DONE"
    IN  [c EXCEPT
            !.queue = Tail(@),
            !.read = Append(@, datagram),
            !.list = IF nlh.nlmsg_type = "RTM_NEWADDR"
                       THEN parse_nl_msg(datagram, @) ELSE @,
            !.multipart_msg_end = multipart_msg_end,
            !.pc = IF ~nlh.multi \/ multipart_msg_end THEN "returned" ELSE "recvmsg"]

\* portd_populate_kernel_ip_addr sends the RTM_GETADDR dump request and
\* enters parse_ip_addr_dump; reply is what the kernel will answer
DumpStart(family, reply, env) ==
    /\ call.op = "none"
    /\ call' = [op |-> "dump", family |-> family, reply |-> reply,
                pending |-> IF 1 \in env.sendfail THEN <<>> ELSE reply,
                queue |-> <<>>, read |-> <<>>, list |-> <<>>,
                multipart_msg_end |-> FALSE,
                pc |-> IF 1 \in env.sendfail THEN "returned" ELSE "recvmsg"]
    /\ UNCHANGED <<ports, kernel, routes, commit_txn, vrf, phase, ops>>

\* the kernel queues the next datagram of its reply on the socket
KernelDeliver ==
    /\ call.op = "dump"
    /\ call.pending # <<>>
    /\ call' = [call EXCEPT !.queue = Append(@, Head(call.pending)),
                            !.pending = Tail(@)]
    /\ UNCHANGED <<ports, kernel, routes, commit_txn, vrf, phase, ops>>

\* recvmsg returns a datagram and the loop body runs
RecvMsg ==
    /\ call.op = "dump"
    /\ call.pc = "recvmsg"
    /\ call.queue # <<>>
    /\ call' = DumpTurn(call, Head(call.queue))
    /\ UNCHANGED <<ports, kernel, routes, commit_txn, vrf, phase, ops>>

\* recvmsg fails (ret < 0): parse_ip_addr_dump returns
RecvError ==
    /\ call.op = "dump"
    /\ call.pc = "recvmsg"
    /\ call' = [call EXCEPT !.pc = "returned"]
    /\ UNCHANGED <<ports, kernel, routes, commit_txn, vrf, phase, ops>>

InitDump == InitOver({OnIf("p1", {})}, {TRUE})

NextDump ==
    \/ \E family \in {AF_INET, AF_INET6}, reply \in Replies,
          env \in {[noif |-> {}, sendfail |-> sf, vrf |-> TRUE] : sf \in {{}, {1}}} :
          DumpStart(family, reply, env)
    \/ KernelDeliver
    \/ RecvMsg
    \/ RecvError

\* the kernel delivers what it has queued for delivery, and a recvmsg that
\* has a datagram to return returns
SpecDump ==
    InitDump /\ [][NextDump]_vars /\ WF_vars(KernelDeliver) /\ WF_vars(RecvMsg)

\* the datagrams of a sequence that hold a NLMSG_DONE, or lack NLM_F_MULTI
HasDone(datagram) ==
    \E j \in DOMAIN datagram : datagram[j].nlmsg_type = "NLMSG_DONE"

Ends(datagram) == HasDone(datagram) \/ ~datagram[1].multi

Dumping == call.op = "dump"

\* C30 as stated, first half: once a datagram that holds NLMSG_DONE anywhere,
\* or a datagram without NLM_F_MULTI, has been received, the dump makes no
\* further recvmsg.
StopsAtDone ==
    Dumping => ((\E i \in DOMAIN call.read : Ends(call.read[i])) => call.pc = "returned")

\* C30 as stated: a dump whose reply holds a NLMSG_DONE, wherever in a
\* datagram, returns.
C30_DumpTerminates ==
    (Dumping /\ \E i \in DOMAIN call.reply : HasDone(call.reply[i]))
        ~> (Dumping /\ call.pc = "returned")

\* a dump whose reply has a datagram that begins with NLMSG_DONE returns
DoneFirstTerminates ==
    (Dumping /\ \E i \in DOMAIN call.reply : call.reply[i][1].nlmsg_type = "NLMSG_DONE")
        ~> (Dumping /\ call.pc = "returned")

\* the dump makes no recvmsg after a datagram that begins with NLMSG_DONE or
\* whose first message lacks NLM_F_MULTI
StopsAtLeadingDone ==
    Dumping =>
        ((\E i \in DOMAIN call.read :
              call.read[i][1].nlmsg_type = "NLMSG_DONE" \/ ~call.read[i][1].multi)
            => call.pc = "returned")

\* the kernel answered with one datagram, an address followed by NLMSG_DONE;
\* the dump has parsed it and waits in recvmsg for a datagram that will not
\* come
C30_Witness ==
    /\ Dumping
    /\ Len(call.reply) = 1
    /\ Len(call.reply[1]) = 2
    /\ call.reply[1][1].nlmsg_type = "RTM_NEWADDR"
    /\ call.reply[1][2].nlmsg_type = "NLMSG_DONE"
    /\ call.read = call.reply
    /\ call.pending = <<>>
    /\ call.queue = <<>>
    /\ DOMAIN call.list = {"p1"}
    /\ call.pc = "recvmsg"




-----------------------------------------------------------------------------
(* SpecKPorts: the two dumps of portd_ipaddr_config_on_init, each over the  *)
(* whole reply the kernel gives for the addresses it holds                  *)

\* every order in which the elements of a finite set can be listed
Perms(S) == {f \in [1..Cardinality(S) -> S] : Range(f) = S}

\* a sequence of messages cut into datagrams of at most k messages
RECURSIVE Chunks(_, _)
Chunks(msgs, k) ==
    IF msgs = <<>> THEN <<>>
    ELSE IF Len(msgs) <= k THEN <<msgs>>
    ELSE <<SubSeq(msgs, 1, k)>> \o Chunks(SubSeq(msgs, k + 1, Len(msgs)), k)

\* the RTM_NEWADDR messages the kernel has for one family
FamilyMsgs(kern, family) ==
    UNION {{NlMsg("RTM_NEWADDR", TRUE, n, a) :
               a \in {b \in kern[n] : b.family = family}} : n \in DOMAIN kern}

\* a multi-part reply: the addresses, then NLMSG_DONE in a datagram of its own
KernelReply(order, k) ==
    Chunks(order, k) \o <<(<<NlMsg("NLMSG_DONE", TRUE, NULLSTR, NULL)>>)>>

\* the while loop of parse_ip_addr_dump over the datagrams queued
RECURSIVE parse_ip_addr_dump(_)
parse_ip_addr_dump(c) ==
    IF c.pc # "recvmsg" \/ c.queue = <<>> THEN c
    ELSE parse_ip_addr_dump(DumpTurn(c, Head(c.queue)))

\* portd_populate_kernel_ip_addr(family, &kernel_port_list) from its send()
\* to the return of parse_ip_addr_dump: the kernel_port_list it leaves
PopulateFamily(kernel_port_list, family, reply, env) ==
    IF 1 \in env.sendfail THEN kernel_port_list
    ELSE parse_ip_addr_dump([family |-> family, queue |-> reply, read |-> <<>>,
                             list |-> kernel_port_list,
                             multipart_msg_end |-> FALSE, pc |-> "recvmsg"]).list

\* one of the two calls portd_ipaddr_config_on_init makes, AF_INET first.
\* The function stores rta->rta_len behind the end of its req, which has no
\* room for an attribute: the store goes unnoticed, or it hits the stack
\* guard and the process is aborted when the function returns
PopulateKernel(family, order, k, env, guard_hit) ==
    /\ phase = "boot"
    /\ \/ family = AF_INET /\ call.op = "none"
       \/ family = AF_INET6 /\ call.op = "populate" /\ call.dumped = <<AF_INET>>
    /\ LET list0  == IF call.op = "none" THEN <<>> ELSE call.list
           sent0  == IF call.op = "none" THEN <<>> ELSE call.replies
           reply  == IF 1 \in env.sendfail THEN <<>> ELSE KernelReply(order, k)
       IN  call' = IF guard_hit
                     THEN [op |-> "aborted", dumped |-> <<>>, list |-> <<>>,
                           replies |-> <<>>]
                   ELSE [op |-> "populate",
                         dumped |-> IF call.op = "none" THEN <<family>>
                                    ELSE Append(call.dumped, family),
                         list |-> PopulateFamily(list0, family, reply, env),
                         replies |-> sent0 \o reply]
    /\ UNCHANGED <<ports, kernel, routes, commit_txn, vrf, phase, ops>>

KPortAddrs(ifname) ==
    IF ifname = "p1"
      THEN {KAddr(AF_INET, H5, 24, "global"), KAddr(AF_INET, H9, 24, "global"),
            KAddr(AF_INET6, G1, 64, "global"), KAddr(AF_INET6, LL, 64, "link")}
    ELSE IF ifname = "p2" THEN {KAddr(AF_INET, H6, 24, "global"),
                                KAddr(AF_INET6, LL, 64, "link")}
    ELSE IF ifname = LOOPBACK_INTERFACE_NAME THEN {KAddr(AF_INET, H127, 8, "host")}
    ELSE {}

KPortKernels ==
    {[n \in IfNames |-> CASE n = "p1" -> k1 [] n = "p2" -> k2
                           [] n = LOOPBACK_INTERFACE_NAME -> klo [] OTHER -> {}] :
        k1 \in SUBSET KPortAddrs("p1"), k2 \in SUBSET KPortAddrs("p2"),
        klo \in SUBSET KPortAddrs(LOOPBACK_INTERFACE_NAME)}

InitKPorts == InitOver(KPortKernels, {TRUE})

NextKPorts ==
    \E family \in {AF_INET, AF_INET6} :
        \E order \in Perms(FamilyMsgs(kernel, family)), k \in 1..MaxMsgs,
           env \in {[noif |-> {}, sendfail |-> sf, vrf |-> TRUE] : sf \in {{}, {1}}},
           guard_hit \in BOOLEAN :
            PopulateKernel(family, order, k, env, guard_hit)

SpecKPorts == InitKPorts /\ [][NextKPorts]_vars

\* the messages of the replies read that report an address parse_nl_msg is
\* to keep
Reported ==
    {m \in UNION {Range(call.replies[i]) : i \in DOMAIN call.replies} :
        /\ m.nlmsg_type = "RTM_NEWADDR"
        /\ m.ifname # LOOPBACK_INTERFACE_NAME
        /\ ~(m.addr.family = AF_INET6 /\ m.addr.scope = "link")}

AddrSet(kernel_port, family) ==
    IF family = AF_INET THEN kernel_port.ip4addr ELSE kernel_port.ip6addr

BothDumped == call.op = "populate" /\ call.dumped = <<AF_INET, AF_INET6>>

\* C31: after both dumps the kernel port list has no entry "lo"; every
\* reported address that is not on "lo" and not an IPv6 address of link scope
\* is held exactly once, as inet_ntop/"%s/%d" print it, in the hmap of its
\* family of the one kernel_port listed under its interface name; and the
\* list holds nothing else.
C31_KernelPortContents ==
    BothDumped =>
        /\ LOOPBACK_INTERFACE_NAME \notin DOMAIN call.list
        /\ \A m \in Reported :
              /\ m.ifname \in DOMAIN call.list
              /\ CopiesIn(Text(m.addr.host, m.addr.len),
                          AddrSet(call.list[m.ifname], m.addr.family)) = 1
        /\ \A n \in DOMAIN call.list :
              /\ call.list[n].name = n
              /\ \A family \in {AF_INET, AF_INET6} :
                    \A text \in BagToSet(AddrSet(call.list[n], family)) :
                        \E m \in Reported :
                            /\ m.ifname = n
                            /\ m.addr.family = family
                            /\ text = Text(m.addr.host, m.addr.len)

\* the list the two dumps build holds the interfaces and addresses that
\* portd_populate_kernel_ip_addr reads off the kernel's address sets
DumpsReadKernel ==
    (BothDumped /\ Len(call.replies) >= 2
        /\ FamilyMsgs(kernel, AF_INET) \cup FamilyMsgs(kernel, AF_INET6)
              \subseteq UNION {Range(call.replies[i]) : i \in DOMAIN call.replies}) =>
        /\ DOMAIN call.list = DOMAIN portd_populate_kernel_ip_addr(kernel)
        /\ \A n \in DOMAIN call.list :
              /\ BagToSet(call.list[n].ip4addr) =
                     portd_populate_kernel_ip_addr(kernel)[n].ip4addr
              /\ BagToSet(call.list[n].ip6addr) =
                     portd_populate_kernel_ip_addr(kernel)[n].ip6addr

\* p1 holds two IPv4 addresses, a global and a link-scope IPv6 address, and
\* the loopback holds one: one kernel_port, p1, with both families
C31_Witness ==
    /\ BothDumped
    /\ kernel["p1"] = KPortAddrs("p1")
    /\ kernel[LOOPBACK_INTERFACE_NAME] # {}
    /\ kernel["p2"] = {}
    /\ Cardinality(Reported) = 3
    /\ DOMAIN call.list = {"p1"}
    /\ call.list["p1"].ip4addr = SetToBag({Text(H5, 24), Text(H9, 24)})
    /\ call.list["p1"].ip6addr = SetToBag({Text(G1, 64)})




-----------------------------------------------------------------------------
(* One reconfigure call replayed on a kernel that holds the prior PortState *)

\* the texts a struct port holds, by family
PortTexts(port, family) ==
    (IF Primary(port, family) # NULL THEN {Primary(port, family)} ELSE {})
        \cup BagToSet(Secondary(port, family))

\* the addresses a struct port holds
PortSet(port) ==
    UNION {{[family |-> family,
             host |-> portd_get_prefix(family, a).host,
             len |-> portd_get_prefix(family, a).len] :
                a \in PortTexts(port, family)} : family \in Families}

\* the last call was a reconfigure call with both secondary columns reported
\* modified, and every kernel request of it was sent
FullCall ==
    /\ call.op = "reconfig"
    /\ call.m4 /\ call.m6
    /\ \A i \in OpsOf("addr") : ops[i].res = "sent"

\* what a kernel that held the prior PortState on the port holds after the
\* requests of the last call
Replayed ==
    LET along == KernelsAlong(OnIf(call.port, {KAddr(a.family, a.host, a.len, "global") :
                                                  a \in PortSet(call.pre)}), ops)
    IN  AddrsOn(along[Len(along)], call.port)

\* the last call asked the kernel to add an address and later to delete it
AddThenDel ==
    \E i, j \in OpsOf("addr") :
        /\ i < j
        /\ ops[i].cmd = RTM_NEWADDR
        /\ ops[j].cmd = RTM_DELADDR
        /\ ops[i].family = ops[j].family
        /\ \E a \in PortSet(call.pre) \cup RowSet(call.row) :
              /\ Denotes(ops[i].family, ops[i].address, a)
              /\ Denotes(ops[j].family, ops[j].address, a)

\* C32 as stated: the requests of one reconfigure call in which every kernel
\* operation succeeds and both secondary columns are reported modified, applied
\* in order to a kernel that holds the prior PortState, leave exactly the
\* primary and secondary addresses of the CONFIG row; no address is added and
\* later deleted in the call.
C32_SinglePortConvergence ==
    FullCall => /\ Replayed = RowSet(call.row)
                /\ ~AddThenDel

\* the row's primary of a family is among the stored secondaries and not
\* among the row's secondaries
SecondaryBecamePrimary(family) ==
    /\ RowPrimary(call.row, family) # NULL
    /\ BagIn(RowPrimary(call.row, family), Secondary(call.pre, family))
    /\ RowPrimary(call.row, family) \notin Range(RowSecondary(call.row, family))

\* a text of the family is a primary, stored or of the row, and a secondary,
\* stored or of the row
BothRoles(family) ==
    ({Primary(call.pre, family), RowPrimary(call.row, family)} \ {NULL})
        \cap (BagToSet(Secondary(call.pre, family))
                 \cup Range(RowSecondary(call.row, family))) # {}

\* what the code does: the replay never leaves an address the row does not
\* hold, and it leaves all of the row's addresses when no text is both a
\* primary and a secondary
ConvergesWithoutSharedText ==
    FullCall =>
        /\ Replayed \subseteq RowSet(call.row)
        /\ (\A family \in Families : ~BothRoles(family)) =>
              /\ Replayed = RowSet(call.row)
              /\ ~AddThenDel

\* a call that found A24 among the stored secondaries and as the primary of a
\* row without secondaries
C32_Witness ==
    /\ FullCall
    /\ SecondaryBecamePrimary(AF_INET)
    /\ Primary(call.pre, AF_INET) # RowPrimary(call.row, AF_INET)
    /\ RowSecondary(call.row, AF_INET) = <<>>
    /\ AddThenDel
    /\ Replayed # RowSet(call.row)


-----------------------------------------------------------------------------
(* portd_del_connected_route next to another port's route *)

\* the nexthop rows the routes of a table refer to
RECURSIVE NexthopCount(_)
NexthopCount(table) ==
    IF table = <<>> THEN 0
    ELSE Len(Head(table).nexthops) + NexthopCount(Tail(table))

\* two rows of the table before the call are connected routes to the same
\* prefix through different ports
SharedSubnet(i, j) ==
    /\ i # j
    /\ call.routes0[i].prefix = call.routes0[j].prefix
    /\ call.routes0[i].address_family = call.routes0[j].address_family
    /\ call.routes0[i].nexthops[1].ports[1] = call.port
    /\ call.routes0[j].nexthops[1].ports[1] # call.port

\* C33: one call of portd_del_connected_route removes at most one route row
\* and one nexthop row, and the row it removes has the port of the call as
\* its first nexthop's first port: the row of another port stays, also when
\* it is a connected route to the same prefix.
C33_DeleteOnlyOwnRoute ==
    call.op = "del_route" =>
        /\ \/ routes = call.routes0
           \/ \E i \in DOMAIN call.routes0 :
                 /\ routes = RemoveAt(call.routes0, i)
                 /\ call.routes0[i].nexthops[1].ports[1] = call.port
        /\ Len(call.routes0) - Len(routes) \in {0, 1}
        /\ NexthopCount(call.routes0) - NexthopCount(routes) \in {0, 1}
        /\ \A j \in DOMAIN call.routes0 :
              call.routes0[j].nexthops[1].ports[1] # call.port =>
                  \E k \in DOMAIN routes : routes[k] = call.routes0[j]

\* p1 and p2 had connected routes to the same prefix, the call for p1's
\* address removed p1's row and left p2's
C33_Witness ==
    /\ call.op = "del_route"
    /\ call.port = "p1"
    /\ Len(call.routes0) = 2
    /\ \E i, j \in DOMAIN call.routes0 :
          /\ SharedSubnet(i, j)
          /\ routes = <<call.routes0[j]>>
    /\ ops[Len(ops)].res = "ok"


-----------------------------------------------------------------------------
(* SpecScan: the route scan of portd_del_connected_route over route rows  *)
(* that other writers of CONFIG left without a nexthop or without a port  *)

\* the conjuncts of is_route_matched in front of the port comparison
MatchedUpToPort(row_route, prefix_str) ==
    /\ row_route.prefix = prefix_str
    /\ row_route.from = "connected"
    /\ (row_route.sub_address_family = NULLSTR
        \/ row_route.sub_address_family = "unicast")

\* row_route->nexthops[0]->ports[0] does not exist
NoFirstPort(row_route) ==
    \/ row_route.nexthops = <<>>
    \/ row_route.nexthops[1].ports = <<>>

\* what reading the name behind a missing element can come to: the process
\* is killed, or the bytes read compare equal or unequal to port_name
MissingReads == {"killed", "equal", "unequal"}

\* the scan from row i on: [res, at, missing], missing being the rows whose
\* absent element was read
RECURSIVE RouteScan(_, _, _, _, _, _, _)
RouteScan(table, i, prefix_str, port_name, family, read, missing) ==
    IF i > Len(table) THEN [res |-> "notfound", at |-> 0, missing |-> missing]
    ELSE IF ~FamilyPasses(table[i], family)
      THEN RouteScan(table, i + 1, prefix_str, port_name, family, read, missing)
    ELSE IF ~MatchedUpToPort(table[i], prefix_str)
      THEN RouteScan(table, i + 1, prefix_str, port_name, family, read, missing)
    ELSE IF NoFirstPort(table[i])
      THEN IF read = "killed"
             THEN [res |-> "killed", at |-> i, missing |-> missing \cup {i}]
           ELSE IF read = "equal"
             THEN [res |-> "ok", at |-> i, missing |-> missing \cup {i}]
           ELSE RouteScan(table, i + 1, prefix_str, port_name, family, read,
                          missing \cup {i})
    ELSE IF is_route_matched(table[i], prefix_str, port_name)
      THEN [res |-> "ok", at |-> i, missing |-> missing]
    ELSE RouteScan(table, i + 1, prefix_str, port_name, family, read, missing)

\* one call of portd_del_connected_route(address, port_name, is_v4) over
\* such a table
DelRouteScan(address, port_name, family, read) ==
    /\ call.op = "none"
    /\ LET pr == RoutePrefix(family, address)
       IN  \E r \in {IF pr.ok
                       THEN RouteScan(routes, 1, pr.prefix, port_name, family,
                                      read, {})
                       ELSE [res |-> "badprefix", at |-> 0, missing |-> {}]} :
              /\ routes' = IF r.res = "ok" THEN RemoveAt(routes, r.at) ELSE routes
              /\ commit_txn' = IF r.res = "ok" THEN TRUE ELSE commit_txn
              /\ ops' = <<Ev("route", "DEL", port_name, family, address, FALSE,
                             r.res)>>
              /\ call' = [op |-> "scan", address |-> address, port |-> port_name,
                          family |-> family, routes0 |-> routes,
                          commit0 |-> commit_txn, at |-> r.at,
                          missing |-> r.missing]
    /\ UNCHANGED <<ports, kernel, vrf, phase>>

\* the nexthop columns a route row can have
ScanNexthops ==
    {<<>>, <<[ports |-> <<>>]>>, <<[ports |-> <<"p1">>]>>, <<[ports |-> <<"p2">>]>>}

ScanRows ==
    {[RouteRow("ipv4", prefix, from, "unicast", "p1") EXCEPT !.nexthops = nh] :
        prefix \in {N4, A24}, from \in {"connected", "static"},
        nh \in ScanNexthops}

ScanTables ==
    {<<>>} \cup {<<r>> : r \in ScanRows}
        \cup {<<r1, r2>> : r1 \in ScanRows, r2 \in ScanRows}

InitScan ==
    /\ ports = [p \in Ports |-> NoPort]
    /\ kernel = OnIf("p1", {})
    /\ routes \in ScanTables
    /\ commit_txn = FALSE
    /\ vrf = TRUE
    /\ phase = "main"
    /\ call = NoCall
    /\ ops = <<>>

NextScan ==
    \/ \E address \in {A24, B1, BAD}, port_name \in Ports,
          family \in {AF_INET, AF_INET6}, read \in MissingReads :
           DelRouteScan(address, port_name, family, read)
    \/ PassEnd

SpecScan == InitScan /\ [][NextScan]_vars

\* C34 as stated: the route scan reads the first nexthop's first port only of
\* a route row that has a nexthop with a port; whatever route rows CONFIG
\* holds, rows with an empty nexthop list or a nexthop without ports
\* included, the scan accesses no missing element.
C34_ScanReadsPresent ==
    call.op = "scan" => call.missing = {}

\* what the code does: a row is read behind its nexthop list exactly when it
\* passes the family test and matches prefix, source and sub-family, has no
\* first nexthop port, and no row in front of it ended the scan
ScanReadsMatchedRows ==
    call.op = "scan" =>
        /\ \A i \in call.missing :
              /\ NoFirstPort(call.routes0[i])
              /\ FamilyPasses(call.routes0[i], call.family)
              /\ MatchedUpToPort(call.routes0[i],
                                 RoutePrefix(call.family, call.address).prefix)
        /\ \A i \in DOMAIN call.routes0 :
              (/\ NoFirstPort(call.routes0[i])
               /\ ~MatchedUpToPort(call.routes0[i],
                                   RoutePrefix(call.family, call.address).prefix))
                 => i \notin call.missing

\* over a table whose rows all have a first nexthop port the scan is
\* portd_del_connected_route
ScanIsDelRoute ==
    (call.op = "scan" /\ \A i \in DOMAIN call.routes0 : ~NoFirstPort(call.routes0[i])) =>
        LET s0 == [port |-> NoPort, kernel |-> kernel, routes |-> call.routes0,
                   commit_txn |-> call.commit0, ops |-> <<>>, nsend |-> 0]
            s1 == portd_del_connected_route(s0, call.address, call.port,
                                            call.family)
        IN  /\ routes = s1.routes
            /\ commit_txn = s1.commit_txn
            /\ ops = s1.ops

\* the scan passed a connected row without nexthop whose prefix differs,
\* without reading behind its nexthop list, and deleted the row after it
C34_Witness ==
    /\ call.op = "scan"
    /\ Len(call.routes0) = 2
    /\ call.routes0[1].from = "connected"
    /\ call.routes0[1].nexthops = <<>>
    /\ call.missing = {}
    /\ call.at = 2
    /\ routes = <<call.routes0[1]>>


-----------------------------------------------------------------------------
(* The assertion of masklen2ip *)

\* C35: the assertion of masklen2ip, 0 <= masklen <= 32, holds at every call:
\* apply_mask_ipv4 is reached only behind a portd_get_prefix that returned 0,
\* and with the length it stored, whatever the address text.
C35_MasklenAssertionHolds ==
    call.op = "route_mask" =>
        /\ call.res # "abort"
        /\ \A i \in DOMAIN call.masklens :
              /\ MasklenInRange(call.masklens[i])
              /\ call.ret.ok
              /\ call.masklens[i] = call.ret.len
        /\ (call.family = AF_INET /\ call.ret.ok) => call.masklens # <<>>
        /\ call.res = "ok" =>
              call.prefix = Text(ApplyMaskOf(call.family, call.ret.host,
                                             call.ret.len), call.ret.len)

\* masklen2ip was called for a text whose length, 288, is beyond the range of
\* the unsigned char it is stored in
C35_Witness ==
    /\ call.op = "route_mask"
    /\ call.family = AF_INET
    /\ call.address.len = 288
    /\ call.masklens = <<32>>
    /\ call.res = "ok"

=============================================================================
